---- MODULE Spec2Model ----
(***************************************************************************)
(* Employee management API: the GraphQL resolvers (role and ownership      *)
(* guards), EmployeeService (cache-aside reads, writes followed by cache   *)
(* eviction) and CacheService (Redis client with a connection flag).       *)
(*                                                                         *)
(* Each request is a process: a resolver runs its synchronous guard and    *)
(* then the service method, which suspends at every store (MongoDB) and    *)
(* cache (Redis) call.  One step of a request is one such call.            *)
(***************************************************************************)
EXTENDS Integers, Sequences, FiniteSets, TLC

\* ---------------------------------------------------------------- bounds
MaxRecords == 2     \* documents the Employee collection may hold
MaxWrites == 2      \* successful store mutations in one run
NumProcs == 2       \* requests in flight at once
MaxRequests == 3    \* requests received in one run
TickSeconds == 100  \* seconds that pass in one step of the clock
GuardRequests == 2  \* requests received in one run of the guard specification
MaxEntries == 4     \* attendance entries of the record whose rate is computed

Procs == 1..NumProcs
Ids == 1..MaxRecords
\* Email addresses are numbered; the seeded record holds address 1.
Emails == 1..MaxRecords

Min(a, b) == IF a < b THEN a ELSE b
Max(a, b) == IF a > b THEN a ELSE b

\* ----------------------------------------------------- callers (context.user)
\* context.user is null, or {id, email, role, employeeRef}; employeeRef 0
\* stands for an identity without a back-reference.
NoUser == [auth |-> FALSE, role |-> "none", employeeRef |-> 0]
AdminUser == [auth |-> TRUE, role |-> "admin", employeeRef |-> 0]
MemberUser(ref) == [auth |-> TRUE, role |-> "employee", employeeRef |-> ref]
Callers == {NoUser, AdminUser, MemberUser(1), MemberUser(0)}

\* ------------------------------------------------------------ request inputs
\* EmployeeFilterInput as the resolver hands it on: absent fields are falsy
\* ("" or 0), isActive is "unset" unless a boolean was given.
NoFilter == [_id |-> 0, class |-> "", isActive |-> "unset"]
Filters == {NoFilter, [NoFilter EXCEPT !.isActive = "false"]}
Paginations == {[page |-> 1, limit |-> 10], [page |-> 2, limit |-> 1]}
DefaultSort == [field |-> "createdAt", order |-> "DESC"]

\* UpdateEmployeeInput: only the keys the client supplied are present.
UpdateInputs ==
  { [class |-> "c2"],
    [class |-> "c2", age |-> 40],
    [age |-> 17],
    [email |-> 2] }
BulkInputs == { [class |-> "c2"], [email |-> 2], [age |-> 17] }
BulkIdSets == { {MaxRecords}, Ids }
CreateInputs ==
  { [email |-> e, age |-> a, class |-> "c1"] : e \in Emails, a \in {30, 17} }
\* AttendanceInput.status: a value of the schema's enum, or the upper-case
\* name the GraphQL enum delivers.
AttendanceInputs == { [status |-> "present"], [status |-> "PRESENT"] }
SearchQueries == Emails
NoInput == [none |-> TRUE]
NoAttendance == [status |-> "none"]

\* --------------------------------------------------------------- the store
\* A record with the values tests/scripts/seed.ts gives, and a code.
SeedEmployee ==
  [_id |-> 1, employeeId |-> 1, email |-> 1, age |-> 30, class |-> "c1",
   department |-> "Science", isActive |-> TRUE, attendance |-> <<>>,
   updatedAt |-> 0]

\* A second record of the collection.
SecondEmployee ==
  [_id |-> 2, employeeId |-> 2, email |-> 2, age |-> 30, class |-> "c1",
   department |-> "", isActive |-> TRUE, attendance |-> <<>>,
   updatedAt |-> 0]
\* The collection when the server starts.
SeededStores == {<<SeedEmployee>>, <<SeedEmployee, SecondEmployee>>}

\* Schema validators of the fields an input carries.
ValidAge(a) == a >= 18 /\ a <= 70
ValidStatus(s) == s \in {"present", "absent", "late"}
InputValid(input) == ("age" \in DOMAIN input) => ValidAge(input.age)

\* An update that replaces the document: fields the input lacks are reset.
ApplySet_replace(doc, input) ==
  [f \in DOMAIN doc |->
     IF f \in DOMAIN input THEN input[f]
     ELSE IF f = "attendance" THEN <<>> ELSE doc[f]]
\* { $set: input } on one document.
ApplySet(doc, input) ==
  [f \in DOMAIN doc |-> IF f \in DOMAIN input THEN input[f] ELSE doc[f]]

\* An update that leaves updatedAt as it was.
Touch_unstamped(doc, now) == doc
\* timestamps: true.  Every update the model sends (findByIdAndUpdate,
\* updateMany) has updatedAt: new Date() added to its $set, whether or not
\* it changes any other field.
Touch(doc, now) == [doc EXCEPT !.updatedAt = now]

\* A lookup that passes over soft-deleted documents.
EmailTaken_activeOnly(emps, email, exceptId) ==
  \E i \in 1..Len(emps) :
    i # exceptId /\ emps[i].email = email /\ emps[i].isActive
\* The unique index on email: another document holds the address.
EmailTaken(emps, email, exceptId) ==
  \E i \in 1..Len(emps) : i # exceptId /\ emps[i].email = email

\* The query object getEmployees builds: isActive defaults to true and is
\* overridden only by a boolean; a falsy filter field adds no condition; the
\* _id the resolver may put into the filter is never read.
BuildQuery(filter) ==
  [isActive |-> (filter.isActive # "false"), class |-> filter.class]

Matches(doc, query) ==
  /\ doc.isActive = query.isActive
  /\ (query.class = "" \/ doc.class = query.class)

MatchIds(emps, query) == {i \in 1..Len(emps) : Matches(emps[i], query)}

\* sort({createdAt: +-1}): documents are created in _id order.
Ordered(S, order) ==
  [k \in 1..Cardinality(S) |->
     CHOOSE i \in S :
       Cardinality({j \in S : IF order = "ASC" THEN j < i ELSE j > i}) = k - 1]

\* find(query).sort().skip().limit().lean()
FindPage(emps, query, sort, skip, limit) ==
  LET ids == Ordered(MatchIds(emps, query), sort.order)
      last == Min(Len(ids), skip + limit)
  IN [k \in 1..Max(0, last - skip) |-> emps[ids[skip + k]]]

CountDocuments(emps, query) == Cardinality(MatchIds(emps, query))

\* Math.ceil(total / limit) for limit >= 1.
CeilDiv(a, b) == (a + b - 1) \div b

\* An envelope whose page count is rounded down.
Envelope_floorPages(data, total, pagination) ==
  LET pages == total \div pagination.limit
  IN [data |-> data,
      pagination |-> [total |-> total, page |-> pagination.page,
                      limit |-> pagination.limit, pages |-> pages,
                      hasNextPage |-> pagination.page < pages,
                      hasPrevPage |-> pagination.page > 1]]
Envelope(data, total, pagination) ==
  LET pages == CeilDiv(total, pagination.limit)
  IN [data |-> data,
      pagination |-> [total |-> total, page |-> pagination.page,
                      limit |-> pagination.limit, pages |-> pages,
                      hasNextPage |-> pagination.page < pages,
                      hasPrevPage |-> pagination.page > 1]]

\* ---------------------------------------------------------------- the cache
CACHE_TTL == 300

ListKey(query, skip, limit, sort) ==
  [ns |-> "employees", query |-> query, skip |-> skip, limit |-> limit,
   sort |-> sort]
RecKey(id) == [ns |-> "employee", id |-> id]

EmptyCache == [k \in {} |-> 0]
Put(c, k, v) == [x \in (DOMAIN c) \cup {k} |-> IF x = k THEN v ELSE c[x]]
\* A DEL that removes nothing.
Del_nothing(c, ks) == c
\* DEL key [key ...]
Del(c, ks) == [x \in (DOMAIN c) \ ks |-> c[x]]
\* KEYS employees:*
ListKeysOf(c) == {k \in DOMAIN c : k.ns = "employees"}

\* TTL of a key stored without expiry.
NoExpiry == -1

\* A cached value: the serialized result, its remaining time-to-live, the
\* store version it was computed from (asOf) and the seconds since it was
\* stored (age); the last two are history values.
Entry(val, asOf, ttl) == [val |-> val, asOf |-> asOf, ttl |-> ttl, age |-> 0]

\* A set that stores every key without expiry.
CacheSet_noExpiry(c, key, val, asOf, ttl) ==
  Put(c, key, Entry(val, asOf, NoExpiry))
\* CacheService.set on a connected client: SETEX with a ttl, SET without.
CacheSet(c, key, val, asOf, ttl) ==
  IF ttl # 0 THEN Put(c, key, Entry(val, asOf, ttl))
  ELSE Put(c, key, Entry(val, asOf, NoExpiry))

\* Redis after d seconds: a key with an expiry lives d seconds less and is
\* gone once its time is up.
Expire(c, d) ==
  LET live == {k \in DOMAIN c : c[k].ttl = NoExpiry \/ c[k].ttl > d}
  IN [k \in live |->
        [c[k] EXCEPT !.ttl = IF @ = NoExpiry THEN @ ELSE @ - d,
                     !.age = @ + d]]

NoResult == [none |-> TRUE]
\* The six answers getEmployeeStats waits for, before any has arrived.
NoStats ==
  [total |-> 0, active |-> 0, inactive |-> 0, ageSum |-> 0, ageCount |-> 0,
   departments |-> {}, totalDays |-> 0, presentDays |-> 0]

\* A DataLoader: the keys of the batch not yet dispatched and the cache map
\* from key to value ("pending" until the batch is answered); request is the
\* request whose context function created it.
NewLoader(n) == [request |-> n, batch |-> <<>>, memo |-> {}]
\* The context of a request: its number and its loaders; request 0 is none.
NoContext == [request |-> 0, loaders |-> [userLoader |-> NewLoader(0)]]

VARIABLES
  employees,    \* the Employee collection, a sequence indexed by _id
  redis,        \* the keys Redis holds
  isConnected,  \* CacheService.isConnected
  req,          \* per process: the request it is serving
  ver,          \* number of successful store mutations (history)
  committed,    \* highest store version written by a returned write (history)
  redisIdeal,   \* the keys Redis would hold had it been connected throughout
  served        \* number of requests received so far

vars ==
  <<employees, redis, isConnected, req, ver, committed, redisIdeal, served>>

\* new Date() as a write reads it.  Time is counted in the writes the store
\* has applied: the clock has advanced between two of them.
Now == ver + 1

IdleReq ==
  [pc |-> "idle", op |-> "none", user |-> NoUser, id |-> 0, ids |-> {},
   input |-> NoInput, attendance |-> NoAttendance, filter |-> NoFilter,
   pagination |-> [page |-> 1, limit |-> 10], sort |-> DefaultSort,
   search |-> 0, stats |-> NoStats,
   pending |-> {}, data |-> <<>>, total |-> 0, asOf |-> 0, keys |-> {},
   wver |-> 0, outcome |-> "none", result |-> NoResult, ideal |-> NoResult,
   idealPut |-> FALSE, trace |-> <<>>, seen |-> 0, connOk |-> TRUE,
   cachedAt |-> FALSE, evicted |-> {}, cacheUsed |-> FALSE,
   context |-> NoContext, fields |-> <<>>]

Init ==
  /\ employees \in SeededStores
  /\ redis = EmptyCache
  /\ isConnected = FALSE
  /\ req = [p \in Procs |-> IdleReq]
  /\ ver = 0
  /\ committed = 0
  /\ redisIdeal = EmptyCache
  /\ served = 0

\* ------------------------------------------------------- CacheService events
OnConnect ==
  /\ ~isConnected
  /\ isConnected' = TRUE
  /\ UNCHANGED <<employees, redis, req, ver, committed, redisIdeal>>
  /\ UNCHANGED served
OnError ==
  /\ isConnected
  /\ isConnected' = FALSE
  /\ UNCHANGED <<employees, redis, req, ver, committed, redisIdeal>>
  /\ UNCHANGED served

\* Time passes while some key is cached.
Tick ==
  /\ redis # EmptyCache
  /\ redis' = Expire(redis, TickSeconds)
  /\ redisIdeal' = Expire(redisIdeal, TickSeconds)
  /\ UNCHANGED <<employees, isConnected, req, ver, committed, served>>

\* A document is inserted into the collection by other means than this
\* service, as tests/scripts/seed.ts does; no cache key is evicted.
RecordAppears ==
  /\ Len(employees) < MaxRecords
  /\ Len(employees) + 1 = SecondEmployee._id
  /\ employees' = Append(employees, SecondEmployee)
  /\ ver' = ver + 1
  /\ committed' = ver'
  /\ UNCHANGED <<redis, isConnected, req, redisIdeal, served>>

\* ------------------------------------------------------------ request helpers
Free(p) == req[p].pc = "idle"

\* The server takes a request for process p: the process is free and the
\* run has requests left; some runs start once the cache has connected.
Admit(p, cfg) ==
  /\ Free(p)
  /\ served < cfg.maxRequests
  /\ cfg.cacheUp => isConnected

\* A fresh request, issued now.
NewReq(op, user) ==
  [IdleReq EXCEPT !.pc = "start", !.op = op, !.user = user, !.seen = committed]

Finish(r, outcome, result) ==
  [r EXCEPT !.pc = "done", !.outcome = outcome, !.result = result,
            !.pending = {}]

Log(r, call) == [r EXCEPT !.trace = Append(@, call)]

\* Redis has answered a command of the request.
Answered(r) == [r EXCEPT !.cacheUsed = TRUE]

\* A service that evicts whether or not the store matched a document.
NotFound_evicting(r) ==
  Finish(Log(Log(r, "cache.delete"), "cache.deletePattern"), "NOT_FOUND",
         NoResult)
\* The store matched no document: the service returns null without touching
\* the cache and the resolver raises NOT_FOUND.
NotFound(r) == Finish(r, "NOT_FOUND", NoResult)

\* committed after the step that left process p in state r.
CommittedAfter(r) ==
  IF r.pc = "done" /\ r.outcome = "OK" THEN Max(committed, r.wver)
  ELSE committed

\* The cache key getEmployees computes for a request.
KeyOf(r) ==
  ListKey(BuildQuery(r.filter), (r.pagination.page - 1) * r.pagination.limit,
          r.pagination.limit, r.sort)

\* What a store holding emps answers to the list request r.
ListOf(emps, r) ==
  LET q == BuildQuery(r.filter)
      skip == (r.pagination.page - 1) * r.pagination.limit
  IN Envelope(FindPage(emps, q, r.sort, skip, r.pagination.limit),
              CountDocuments(emps, q), r.pagination)

\* What the store answers now.
FreshList(r) == ListOf(employees, r)

FreshDoc(id) == IF id \in 1..Len(employees) THEN employees[id] ELSE NoResult

\* The same read against a cache that was connected throughout.
IdealVal(key, fresh) ==
  IF key \in DOMAIN redisIdeal THEN redisIdeal[key].val ELSE fresh
IdealMiss(key, fresh) == key \notin DOMAIN redisIdeal /\ fresh # NoResult
IdealPut(key, fresh) ==
  IF IdealMiss(key, fresh) THEN Put(redisIdeal, key, Entry(fresh, ver, CACHE_TTL))
  ELSE redisIdeal

WriteOps ==
  {"createEmployee", "updateEmployee", "deleteEmployee", "markAttendance",
   "bulkUpdateEmployees"}

\* Writes admitted so far that have not yet reached the store.
PendingWrites ==
  {q \in Procs : /\ ~Free(q) /\ req[q].op \in WriteOps /\ req[q].wver = 0}
WriteBudget == ver + Cardinality(PendingWrites) < MaxWrites
CreateBudget ==
  Len(employees)
    + Cardinality({q \in PendingWrites : req[q].op = "createEmployee"})
    < MaxRecords

\* ------------------------------------------- EmployeeService.getEmployees
\* Promise.all([find, countDocuments]) is sent to the store.
IssueListQuery(r) ==
  [Log(Log(r, "store.find"), "store.countDocuments")
     EXCEPT !.pc = "query", !.pending = {"find", "count"}]

\* From the call up to the first suspension: the key is built and
\* CacheService.get is called, which returns null at once when the client
\* is not connected.
getEmployees(p, r) ==
  LET k == KeyOf(r)
      r1 == Log([r EXCEPT !.ideal = IdealVal(k, FreshList(r)),
                          !.idealPut = IdealMiss(k, FreshList(r)),
                          !.cachedAt = k \in DOMAIN redis],
                "cache.get")
  IN /\ redisIdeal' = IdealPut(k, FreshList(r))
     /\ req' = [req EXCEPT ![p] =
                  IF isConnected THEN [r1 EXCEPT !.pc = "cacheGet"]
                  ELSE IssueListQuery([r1 EXCEPT !.connOk = FALSE])]

\* Redis answers GET: a hit is parsed and returned as it is.
getEmployees_cacheGet(p) ==
  /\ req[p].pc = "cacheGet" /\ req[p].op = "employees"
  /\ LET k == KeyOf(req[p])
     IN req' = [req EXCEPT ![p] =
                  IF k \in DOMAIN redis
                  THEN Finish([Answered(@) EXCEPT !.asOf = redis[k].asOf],
                              "OK", redis[k].val)
                  ELSE IssueListQuery(Answered(@))]
  /\ UNCHANGED <<employees, redis, isConnected, ver, committed, redisIdeal>>
  /\ UNCHANGED served

\* A list that returns its envelope without storing it.
AfterListQuery_noSet(r) ==
  IF r.pending # {} THEN r
  ELSE Finish(r, "OK", Envelope(r.data, r.total, r.pagination))
\* Both queries have answered: the envelope is built and CacheService.set
\* is called.
AfterListQuery(r) ==
  IF r.pending # {} THEN r
  ELSE LET res == Envelope(r.data, r.total, r.pagination)
           r1 == Log([r EXCEPT !.result = res], "cache.set")
       IN IF isConnected THEN [r1 EXCEPT !.pc = "cacheSet"]
          ELSE Finish([r1 EXCEPT !.connOk = FALSE], "OK", res)

\* asOf is the store version the older of the two answers was read at.
getEmployees_find(p) ==
  /\ req[p].pc = "query" /\ req[p].op = "employees"
  /\ "find" \in req[p].pending
  /\ LET r == req[p]
         q == BuildQuery(r.filter)
         skip == (r.pagination.page - 1) * r.pagination.limit
     IN req' = [req EXCEPT ![p] = AfterListQuery(
                  [r EXCEPT !.data = FindPage(employees, q, r.sort, skip,
                                              r.pagination.limit),
                            !.asOf = IF "count" \in r.pending THEN ver ELSE @,
                            !.pending = @ \ {"find"}])]
  /\ UNCHANGED <<employees, redis, isConnected, ver, committed, redisIdeal>>
  /\ UNCHANGED served
getEmployees_count(p) ==
  /\ req[p].pc = "query" /\ req[p].op = "employees"
  /\ "count" \in req[p].pending
  /\ LET r == req[p]
     IN req' = [req EXCEPT ![p] = AfterListQuery(
                  [r EXCEPT !.total = CountDocuments(employees,
                                                     BuildQuery(r.filter)),
                            !.asOf = IF "find" \in r.pending THEN ver ELSE @,
                            !.pending = @ \ {"count"}])]
  /\ UNCHANGED <<employees, redis, isConnected, ver, committed, redisIdeal>>
  /\ UNCHANGED served

\* Redis executes SETEX key 300 value.
getEmployees_cacheSet(p) ==
  /\ req[p].pc = "cacheSet" /\ req[p].op = "employees"
  /\ redis' = CacheSet(redis, KeyOf(req[p]), req[p].result, req[p].asOf,
                       CACHE_TTL)
  /\ req' = [req EXCEPT ![p] = Finish(Answered(@), "OK", @.result)]
  /\ UNCHANGED <<employees, isConnected, ver, committed, redisIdeal>>
  /\ UNCHANGED served

\* ---------------------------------------- EmployeeService.getEmployeeById
IssueFindById(r) == [Log(r, "store.findById") EXCEPT !.pc = "findById"]

\* A service that stores whatever findById answers, null included.
Cacheable_always(doc) == TRUE
\* if (employee): only a document is stored in the cache.
Cacheable(doc) == doc # NoResult

\* The service returns val; the resolver turns null into NOT_FOUND.
Reply(r, val) == IF val = NoResult THEN NotFound(r) ELSE Finish(r, "OK", val)

getEmployeeById(p, r) ==
  LET k == RecKey(r.id)
      r1 == Log([r EXCEPT !.ideal = IdealVal(k, FreshDoc(r.id)),
                          !.idealPut = IdealMiss(k, FreshDoc(r.id)),
                          !.cachedAt = k \in DOMAIN redis],
                "cache.get")
  IN /\ redisIdeal' = IdealPut(k, FreshDoc(r.id))
     /\ req' = [req EXCEPT ![p] =
                  IF isConnected THEN [r1 EXCEPT !.pc = "cacheGet"]
                  ELSE IssueFindById([r1 EXCEPT !.connOk = FALSE])]

getEmployeeById_cacheGet(p) ==
  /\ req[p].pc = "cacheGet" /\ req[p].op = "employee"
  /\ LET k == RecKey(req[p].id)
     IN req' = [req EXCEPT ![p] =
                  IF k \in DOMAIN redis
                  THEN Reply([Answered(@) EXCEPT !.asOf = redis[k].asOf],
                             redis[k].val)
                  ELSE IssueFindById(Answered(@))]
  /\ UNCHANGED <<employees, redis, isConnected, ver, committed, redisIdeal>>
  /\ UNCHANGED served

\* findById answers; a document is cached, null is not, and the resolver
\* turns null into NOT_FOUND.
getEmployeeById_findById(p) ==
  /\ req[p].pc = "findById" /\ req[p].op = "employee"
  /\ LET r == req[p]
         doc == FreshDoc(r.id)
         r1 == Log([r EXCEPT !.result = doc, !.asOf = ver], "cache.set")
     IN req' = [req EXCEPT ![p] =
                  IF ~Cacheable(doc) THEN Reply(r, doc)
                  ELSE IF isConnected THEN [r1 EXCEPT !.pc = "cacheSet"]
                  ELSE Reply([r1 EXCEPT !.connOk = FALSE], doc)]
  /\ UNCHANGED <<employees, redis, isConnected, ver, committed, redisIdeal>>
  /\ UNCHANGED served
getEmployeeById_cacheSet(p) ==
  /\ req[p].pc = "cacheSet" /\ req[p].op = "employee"
  /\ redis' = CacheSet(redis, RecKey(req[p].id), req[p].result,
                       req[p].asOf, CACHE_TTL)
  /\ req' = [req EXCEPT ![p] = Reply(Answered(@), @.result)]
  /\ UNCHANGED <<employees, isConnected, ver, committed, redisIdeal>>
  /\ UNCHANGED served

\* ------------------------------------------------------- resolvers: guards
\* A resolver that leaves out the ownership test.
NotOwner_unchecked(user, id) == FALSE
\* context.user.role === EMPLOYEE && context.user.employeeRef?.toString() !== id
NotOwner(user, id) == user.role = "employee" /\ user.employeeRef # id

\* A role test that lets members through.
NotAdmin_membersPass(user) == user.role \notin {"admin", "employee"}
\* context.user.role !== ADMIN
NotAdmin(user) == user.role # "admin"

\* An allow-list with one field too many.
allowedFields_withAge == {"subjects", "class", "age"}
\* The fields a member may update.
allowedFields == {"subjects", "class"}

\* ------------------------------------------------------ resolvers: queries
\* Query.employees: a member with a back-reference has its filter replaced
\* by {_id: employeeRef}; any other authenticated caller keeps its filter.
Query_employees(p, cfg) ==
  /\ Admit(p, cfg)
  /\ served' = served + 1
  /\ \E user \in cfg.callers, filter \in cfg.filters, pagination \in cfg.paginations :
       LET queryFilter ==
             IF user.role = "employee" /\ user.employeeRef # 0
             THEN [NoFilter EXCEPT !._id = user.employeeRef]
             ELSE filter
           r == [NewReq("employees", user) EXCEPT
                   !.filter = queryFilter, !.pagination = pagination]
       IN IF ~user.auth
          THEN /\ req' = [req EXCEPT ![p] =
                            Finish(r, "UNAUTHENTICATED", NoResult)]
               /\ UNCHANGED redisIdeal
          ELSE getEmployees(p, r)
  /\ UNCHANGED <<employees, redis, isConnected, ver, committed>>

\* Query.employee
Query_employee(p, cfg) ==
  /\ Admit(p, cfg)
  /\ served' = served + 1
  /\ \E user \in cfg.callers, id \in cfg.ids :
       LET r == [NewReq("employee", user) EXCEPT !.id = id]
       IN IF ~user.auth
          THEN /\ req' = [req EXCEPT ![p] =
                            Finish(r, "UNAUTHENTICATED", NoResult)]
               /\ UNCHANGED redisIdeal
          ELSE IF NotOwner(user, id)
          THEN /\ req' = [req EXCEPT ![p] = Finish(r, "FORBIDDEN", NoResult)]
               /\ UNCHANGED redisIdeal
          ELSE getEmployeeById(p, r)
  /\ UNCHANGED <<employees, redis, isConnected, ver, committed>>

\* -------------------------------------------------- writes: cache eviction
\* What follows the eviction calls of a write.
AfterEvict(r) ==
  CASE r.op = "createEmployee" ->
         [Log(r, "store.populate") EXCEPT !.pc = "populate"]
    [] r.op = "bulkUpdateEmployees" ->
         [Log(r, "store.find") EXCEPT !.pc = "refetch"]
    [] OTHER -> Finish(r, "OK", r.result)

\* The eviction calls a write makes once its store call has answered:
\* CacheService.delete for each key in delKeys and, with pattern,
\* CacheService.deletePattern('employees:*').  Both return at once when the
\* client is not connected; otherwise DEL and KEYS are sent together.
EvictCalls(r, delKeys, pattern) ==
  LET r1 == IF delKeys # {} THEN Log(r, "cache.delete") ELSE r
      r2 == IF pattern THEN Log(r1, "cache.deletePattern") ELSE r1
  IN IF isConnected THEN [r2 EXCEPT !.pc = "evict", !.keys = delKeys]
     ELSE AfterEvict([r2 EXCEPT !.connOk = FALSE])

IdealEvict(delKeys, pattern) ==
  Del(redisIdeal,
      delKeys \cup (IF pattern THEN ListKeysOf(redisIdeal) ELSE {}))

\* markAttendance deletes the record key only.
UsesPattern(op) == op # "markAttendance"

\* Redis executes the DELs of the record keys and answers KEYS employees:*;
\* deletePattern then sends DEL for the keys it was given, if any.
evict_keys(p) ==
  /\ req[p].pc = "evict"
  /\ LET r0 == req[p]
         after == Del(redis, r0.keys)
         found == IF UsesPattern(r0.op) THEN ListKeysOf(after) ELSE {}
         r == [Answered(r0) EXCEPT
                 !.evicted = (DOMAIN redis) \ (DOMAIN after)]
     IN /\ redis' = after
        /\ req' = [req EXCEPT ![p] =
                     IF found # {}
                     THEN [r EXCEPT !.pc = "evictDel", !.keys = found]
                     ELSE AfterEvict([r EXCEPT !.keys = {}])]
  /\ committed' = CommittedAfter(req'[p])
  /\ UNCHANGED <<employees, isConnected, ver, redisIdeal>>
  /\ UNCHANGED served
deletePattern_del(p) ==
  /\ req[p].pc = "evictDel"
  /\ redis' = Del(redis, req[p].keys)
  /\ req' = [req EXCEPT ![p] =
               AfterEvict([Answered(@) EXCEPT !.keys = {},
                                    !.evicted = @ \cup ((DOMAIN redis)
                                                        \ (DOMAIN redis'))])]
  /\ committed' = CommittedAfter(req'[p])
  /\ UNCHANGED <<employees, isConnected, ver, redisIdeal>>
  /\ UNCHANGED served

\* ------------------------------------------- CacheService: command errors
\* The positions of a request waiting for Redis.
CachePcs == {"cacheGet", "cacheSet", "evict", "evictDel"}

\* A cache method that lets the error of its command through.
OnCacheError_raise(r) == Finish(r, "CacheError", NoResult)
\* The catch blocks of CacheService: get returns null, so the read goes on to
\* the store; set, delete and deletePattern return, so the operation goes on
\* as after the command.
OnCacheError(r) ==
  LET r1 == [r EXCEPT !.connOk = FALSE, !.keys = {}]
  IN CASE r.pc = "cacheGet" /\ r.op = "employees" -> IssueListQuery(r1)
       [] r.pc = "cacheGet" /\ r.op = "employee" -> IssueFindById(r1)
       [] r.pc = "cacheSet" -> Reply(r1, r.result)
       [] OTHER -> AfterEvict(r1)

\* The commands a request is waiting for are rejected by the client.
CacheCommandError(p) ==
  /\ req[p].pc \in CachePcs
  /\ req' = [req EXCEPT ![p] = OnCacheError(@)]
  /\ committed' = CommittedAfter(req'[p])
  /\ UNCHANGED <<employees, redis, isConnected, ver, redisIdeal>>
  /\ UNCHANGED served

\* ----------------------------------------- EmployeeService.createEmployee
createEmployee(p, r) ==
  /\ req' = [req EXCEPT ![p] = [Log(r, "store.findOne") EXCEPT !.pc = "findOne"]]
  /\ UNCHANGED <<employees, redis, redisIdeal, ver, committed>>

\* The document save() validates: new Employee({...input, createdBy}).  The
\* schema requires employeeId, and CreateEmployeeInput has no such field.
SaveValid(input) == "employeeId" \in DOMAIN input /\ InputValid(input)

\* findOne({email}) answers.  A holder of the address rejects the create;
\* otherwise save() runs.  Mongoose validates the document in its own
\* pre('save') hook, which is placed ahead of the hooks of the schema, so
\* the required employeeId is tested before the hook that would generate it
\* is called, and a document that fails is never sent to the store.
createEmployee_findOne(p) ==
  /\ req[p].pc = "findOne" /\ req[p].op = "createEmployee"
  /\ LET r == req[p]
     IN req' = [req EXCEPT ![p] =
                  IF EmailTaken(employees, r.input.email, 0)
                  THEN Finish(r, "DUPLICATE_EMAIL", NoResult)
                  ELSE IF ~SaveValid(r.input)
                  THEN Finish(r, "ValidationError", NoResult)
                  ELSE [Log(r, "store.insert") EXCEPT
                          !.pc = "insert", !.total = r.input.employeeId]]
  /\ UNCHANGED <<employees, redis, isConnected, ver, committed, redisIdeal>>
  /\ UNCHANGED served

\* The pre-save hook of the schema, for a new document without employeeId:
\* employeeId is EMP + (count + 1), padded to six digits; the number stands
\* for the code.  It follows validation, which no such document passes, so
\* no request is ever at this step.
createEmployee_preSave(p) ==
  /\ req[p].pc = "preSave"
  /\ req' = [req EXCEPT ![p] =
               [Log(@, "store.insert") EXCEPT !.pc = "insert",
                                              !.total = Len(employees) + 1]]
  /\ UNCHANGED <<employees, redis, isConnected, ver, committed, redisIdeal>>
  /\ UNCHANGED served

\* The insert: the unique indexes on email and employeeId reject a
\* duplicate (E11000); otherwise the document is stored and the list cache
\* is evicted.
createEmployee_insert(p) ==
  /\ req[p].pc = "insert"
  /\ LET r == req[p]
         doc == [_id |-> Len(employees) + 1, employeeId |-> r.total,
                 email |-> r.input.email, age |-> r.input.age,
                 class |-> r.input.class, department |-> "",
                 isActive |-> TRUE, attendance |-> <<>>,
                 updatedAt |-> ver + 1]
         dup == \/ EmailTaken(employees, r.input.email, 0)
                \/ \E i \in 1..Len(employees) : employees[i].employeeId = r.total
     IN IF dup
        THEN /\ req' = [req EXCEPT ![p] = Finish(r, "E11000", NoResult)]
             /\ UNCHANGED <<employees, ver, redisIdeal>>
        ELSE /\ employees' = Append(employees, doc)
             /\ ver' = ver + 1
             /\ redisIdeal' = IdealEvict({}, TRUE)
             /\ req' = [req EXCEPT ![p] =
                          EvictCalls([r EXCEPT !.wver = ver + 1, !.result = doc],
                                     {}, TRUE)]
  /\ UNCHANGED <<redis, isConnected, committed>>
  /\ UNCHANGED served

\* employee.populate('createdBy') answers and the document is returned.
createEmployee_populate(p) ==
  /\ req[p].pc = "populate"
  /\ req' = [req EXCEPT ![p] = Finish(@, "OK", @.result)]
  /\ committed' = CommittedAfter(req'[p])
  /\ UNCHANGED <<employees, redis, isConnected, ver, redisIdeal>>
  /\ UNCHANGED served

\* ----------------------------------------- EmployeeService.updateEmployee
IssueUpdate(r) ==
  [Log(r, "store.findByIdAndUpdate") EXCEPT !.pc = "update"]

updateEmployee(p, r) ==
  /\ req' = [req EXCEPT ![p] =
               IF "email" \in DOMAIN r.input
               THEN [Log(r, "store.findOne") EXCEPT !.pc = "findOne"]
               ELSE IssueUpdate(r)]
  /\ UNCHANGED <<employees, redis, redisIdeal, ver, committed>>

updateEmployee_findOne(p) ==
  /\ req[p].pc = "findOne" /\ req[p].op = "updateEmployee"
  /\ LET r == req[p]
     IN req' = [req EXCEPT ![p] =
                  IF EmailTaken(employees, r.input.email, r.id)
                  THEN Finish(r, "DUPLICATE_EMAIL", NoResult)
                  ELSE IssueUpdate(r)]
  /\ UNCHANGED <<employees, redis, isConnected, ver, committed, redisIdeal>>
  /\ UNCHANGED served

\* findByIdAndUpdate(id, {$set: input}, {new, runValidators}) answers: the
\* validators reject the input, no document has the id (null, which the
\* resolver turns into NOT_FOUND), the unique index rejects the address, or
\* the document is changed and the caches are evicted.
updateEmployee_update(p) ==
  /\ req[p].pc = "update" /\ req[p].op = "updateEmployee"
  /\ LET r == req[p]
     IN IF ~InputValid(r.input)
        THEN /\ req' = [req EXCEPT ![p] = Finish(r, "ValidationError", NoResult)]
             /\ UNCHANGED <<employees, ver, redisIdeal>>
        ELSE IF r.id \notin 1..Len(employees)
        THEN /\ req' = [req EXCEPT ![p] = NotFound(r)]
             /\ UNCHANGED <<employees, ver, redisIdeal>>
        ELSE IF "email" \in DOMAIN r.input
                /\ EmailTaken(employees, r.input.email, r.id)
        THEN /\ req' = [req EXCEPT ![p] = Finish(r, "E11000", NoResult)]
             /\ UNCHANGED <<employees, ver, redisIdeal>>
        ELSE LET doc == Touch(ApplySet(employees[r.id], r.input), Now)
             IN /\ employees' = [employees EXCEPT ![r.id] = doc]
                /\ ver' = ver + 1
                /\ redisIdeal' = IdealEvict({RecKey(r.id)}, TRUE)
                /\ req' = [req EXCEPT ![p] =
                             EvictCalls([r EXCEPT !.wver = ver + 1,
                                                   !.result = doc],
                                        {RecKey(r.id)}, TRUE)]
  /\ committed' = CommittedAfter(req'[p])
  /\ UNCHANGED <<redis, isConnected>>
  /\ UNCHANGED served

\* ----------------------------------------- EmployeeService.deleteEmployee
deleteEmployee(p, r) ==
  /\ req' = [req EXCEPT ![p] = IssueUpdate(r)]
  /\ UNCHANGED <<employees, redis, redisIdeal, ver, committed>>

\* findByIdAndUpdate(id, {$set: {isActive: false}}) answers.
deleteEmployee_update(p) ==
  /\ req[p].pc = "update" /\ req[p].op = "deleteEmployee"
  /\ LET r == req[p]
     IN IF r.id \notin 1..Len(employees)
        THEN /\ req' = [req EXCEPT ![p] = NotFound(r)]
             /\ UNCHANGED <<employees, ver, redisIdeal>>
        ELSE LET doc == Touch([employees[r.id] EXCEPT !.isActive = FALSE],
                              Now)
             IN /\ employees' = [employees EXCEPT ![r.id] = doc]
                /\ ver' = ver + 1
                /\ redisIdeal' = IdealEvict({RecKey(r.id)}, TRUE)
                /\ req' = [req EXCEPT ![p] =
                             EvictCalls([r EXCEPT !.wver = ver + 1,
                                                   !.result = doc],
                                        {RecKey(r.id)}, TRUE)]
  /\ committed' = CommittedAfter(req'[p])
  /\ UNCHANGED <<redis, isConnected>>
  /\ UNCHANGED served

\* ----------------------------------------- EmployeeService.markAttendance
markAttendance(p, r) ==
  /\ req' = [req EXCEPT ![p] = IssueUpdate(r)]
  /\ UNCHANGED <<employees, redis, redisIdeal, ver, committed>>

\* findByIdAndUpdate(id, {$push: {attendance}}, {new, runValidators})
\* answers; on success only the record key is deleted.
markAttendance_update(p) ==
  /\ req[p].pc = "update" /\ req[p].op = "markAttendance"
  /\ LET r == req[p]
     IN IF ~ValidStatus(r.attendance.status)
        THEN /\ req' = [req EXCEPT ![p] = Finish(r, "ValidationError", NoResult)]
             /\ UNCHANGED <<employees, ver, redisIdeal>>
        ELSE IF r.id \notin 1..Len(employees)
        THEN /\ req' = [req EXCEPT ![p] = NotFound(r)]
             /\ UNCHANGED <<employees, ver, redisIdeal>>
        ELSE LET doc == Touch([employees[r.id] EXCEPT
                                 !.attendance = Append(@, r.attendance)],
                              Now)
             IN /\ employees' = [employees EXCEPT ![r.id] = doc]
                /\ ver' = ver + 1
                /\ redisIdeal' = IdealEvict({RecKey(r.id)}, FALSE)
                /\ req' = [req EXCEPT ![p] =
                             EvictCalls([r EXCEPT !.wver = ver + 1,
                                                   !.result = doc],
                                        {RecKey(r.id)}, FALSE)]
  /\ committed' = CommittedAfter(req'[p])
  /\ UNCHANGED <<redis, isConnected>>
  /\ UNCHANGED served

\* ------------------------------------ EmployeeService.bulkUpdateEmployees
\* updateMany({_id: {$in: ids}}, {$set: input}) without validators: the
\* matching documents are written one after the other in _id order, and the
\* unique index on email stops the command at the first collision, leaving
\* the earlier documents written.  n counts the documents written.
RECURSIVE BulkApply(_, _, _, _)
BulkApply(emps, ids, input, n) ==
  IF ids = {} THEN [emps |-> emps, ok |-> TRUE, n |-> n]
  ELSE LET i == CHOOSE x \in ids : \A y \in ids : x <= y
       IN IF "email" \in DOMAIN input /\ EmailTaken(emps, input.email, i)
          THEN [emps |-> emps, ok |-> FALSE, n |-> n]
          ELSE BulkApply([emps EXCEPT
                            ![i] = Touch(ApplySet(emps[i], input), Now)],
                         ids \ {i}, input, n + 1)

bulkUpdateEmployees(p, r) ==
  /\ req' = [req EXCEPT ![p] =
               [Log(r, "store.updateMany") EXCEPT !.pc = "updateMany"]]
  /\ UNCHANGED <<employees, redis, redisIdeal, ver, committed>>

\* updateMany answers; the record key of every id given and the list keys
\* are evicted whether or not a document matched.
bulkUpdateEmployees_updateMany(p) ==
  /\ req[p].pc = "updateMany"
  /\ LET r == req[p]
         res == BulkApply(employees, r.ids \cap (1..Len(employees)),
                          r.input, 0)
         v == IF res.n > 0 THEN ver + 1 ELSE ver
         delKeys == {RecKey(i) : i \in r.ids}
     IN /\ employees' = res.emps
        /\ ver' = v
        /\ IF res.ok
           THEN /\ redisIdeal' = IdealEvict(delKeys, TRUE)
                /\ req' = [req EXCEPT ![p] =
                             EvictCalls([r EXCEPT !.wver = v], delKeys, TRUE)]
           ELSE /\ redisIdeal' = redisIdeal
                /\ req' = [req EXCEPT ![p] =
                             Finish([r EXCEPT !.wver = v], "E11000", NoResult)]
  /\ UNCHANGED <<redis, isConnected, committed>>
  /\ UNCHANGED served

\* find({_id: {$in: ids}}) answers with the documents as they are now.
bulkUpdateEmployees_refetch(p) ==
  /\ req[p].pc = "refetch"
  /\ LET r == req[p]
         found == Ordered(r.ids \cap (1..Len(employees)), "ASC")
     IN req' = [req EXCEPT ![p] =
                  Finish(r, "OK",
                         [docs |-> [k \in 1..Len(found) |-> employees[found[k]]]])]
  /\ committed' = CommittedAfter(req'[p])
  /\ UNCHANGED <<employees, redis, isConnected, ver, redisIdeal>>
  /\ UNCHANGED served

\* ---------------------------------------- EmployeeService.searchEmployees
\* The text index covers name and email; a search term matches the
\* documents whose address it names, among the active ones.
TextMatchIds(emps, term) ==
  {i \in 1..Len(emps) : emps[i].isActive /\ emps[i].email = term}

searchEmployees(p, r) ==
  /\ req' = [req EXCEPT ![p] =
               [Log(Log(r, "store.find"), "store.countDocuments")
                  EXCEPT !.pc = "query", !.pending = {"find", "count"}]]
  /\ UNCHANGED <<employees, redis, redisIdeal, ver, committed>>

AfterSearchQuery(r) ==
  IF r.pending # {} THEN r
  ELSE Finish(r, "OK", Envelope(r.data, r.total, r.pagination))

searchEmployees_find(p) ==
  /\ req[p].pc = "query" /\ req[p].op = "searchEmployees"
  /\ "find" \in req[p].pending
  /\ LET r == req[p]
         ids == Ordered(TextMatchIds(employees, r.search), "DESC")
         skip == (r.pagination.page - 1) * r.pagination.limit
         last == Min(Len(ids), skip + r.pagination.limit)
     IN req' = [req EXCEPT ![p] = AfterSearchQuery(
                  [r EXCEPT !.data = [k \in 1..Max(0, last - skip) |->
                                        employees[ids[skip + k]]],
                            !.pending = @ \ {"find"}])]
  /\ UNCHANGED <<employees, redis, isConnected, ver, committed, redisIdeal>>
  /\ UNCHANGED served
searchEmployees_count(p) ==
  /\ req[p].pc = "query" /\ req[p].op = "searchEmployees"
  /\ "count" \in req[p].pending
  /\ LET r == req[p]
     IN req' = [req EXCEPT ![p] = AfterSearchQuery(
                  [r EXCEPT !.total = Cardinality(TextMatchIds(employees,
                                                               r.search)),
                            !.pending = @ \ {"count"}])]
  /\ UNCHANGED <<employees, redis, isConnected, ver, committed, redisIdeal>>
  /\ UNCHANGED served

\* --------------------------------------- EmployeeService.getEmployeeStats
StatQueries == {"total", "active", "inactive", "avgAge", "departments",
                "attendance"}

\* What one document adds to a $group sum.
Measure(doc, what) ==
  CASE what = "age" -> doc.age
    [] what = "days" -> Len(doc.attendance)
    [] what = "present" ->
         Cardinality({k \in 1..Len(doc.attendance) :
                        doc.attendance[k].status = "present"})

RECURSIVE SumOver(_, _, _)
SumOver(emps, S, what) ==
  IF S = {} THEN 0
  ELSE LET i == CHOOSE x \in S : TRUE
       IN Measure(emps[i], what) + SumOver(emps, S \ {i}, what)

\* One of the six store answers, written into the request's stats.
StatAnswer(st, q, emps) ==
  LET all == 1..Len(emps)
      act == {i \in all : emps[i].isActive}
  IN CASE q = "total" -> [st EXCEPT !.total = Len(emps)]
       [] q = "active" -> [st EXCEPT !.active = Cardinality(act)]
       [] q = "inactive" -> [st EXCEPT !.inactive = Cardinality(all \ act)]
       [] q = "avgAge" -> [st EXCEPT !.ageSum = SumOver(emps, all, "age"),
                                     !.ageCount = Len(emps)]
       [] q = "departments" ->
            [st EXCEPT !.departments =
               {[department |-> d,
                 count |-> Cardinality({i \in act : emps[i].department = d})] :
                  d \in {emps[i].department : i \in act}}]
       [] q = "attendance" ->
            [st EXCEPT !.totalDays = SumOver(emps, all, "days"),
                       !.presentDays = SumOver(emps, all, "present")]

\* A result that keeps the rows without a department.
StatsResult_unfiltered(st) ==
  [totalEmployees |-> st.total, activeEmployees |-> st.active,
   inactiveEmployees |-> st.inactive,
   averageAge |-> IF st.ageCount = 0 THEN [num |-> 0, den |-> 1]
                  ELSE [num |-> st.ageSum, den |-> st.ageCount],
   departmentCounts |-> st.departments,
   averageAttendanceRate |->
     IF st.totalDays = 0 THEN [num |-> 0, den |-> 1]
     ELSE [num |-> st.presentDays * 100, den |-> st.totalDays]]
\* The returned object: rows without a department are filtered out; an
\* aggregate that grouped nothing gives 0; the averages are kept as
\* numerator and denominator.
StatsResult(st) ==
  [totalEmployees |-> st.total, activeEmployees |-> st.active,
   inactiveEmployees |-> st.inactive,
   averageAge |-> IF st.ageCount = 0 THEN [num |-> 0, den |-> 1]
                  ELSE [num |-> st.ageSum, den |-> st.ageCount],
   departmentCounts |-> {d \in st.departments : d.department # ""},
   averageAttendanceRate |->
     IF st.totalDays = 0 THEN [num |-> 0, den |-> 1]
     ELSE [num |-> st.presentDays * 100, den |-> st.totalDays]]

getEmployeeStats(p, r) ==
  /\ req' = [req EXCEPT ![p] =
               [Log(r, "store.aggregate") EXCEPT !.pc = "stats",
                                                 !.pending = StatQueries]]
  /\ UNCHANGED <<employees, redis, redisIdeal, ver, committed>>

getEmployeeStats_answer(p) ==
  /\ req[p].pc = "stats"
  /\ \E q \in req[p].pending :
       LET r == [req[p] EXCEPT !.stats = StatAnswer(@, q, employees),
                               !.pending = @ \ {q}]
       IN req' = [req EXCEPT ![p] =
                    IF r.pending = {} THEN Finish(r, "OK", StatsResult(r.stats))
                    ELSE r]
  /\ UNCHANGED <<employees, redis, isConnected, ver, committed, redisIdeal>>
  /\ UNCHANGED served

\* ------------------------------------------------ store failure (any call)
StorePcs == {"query", "findById", "findOne", "preSave", "insert", "populate",
             "update", "updateMany", "refetch", "stats"}

\* A store call rejects: the operation ends with the store's error; at names
\* the call that failed.  A read that would have missed a connected cache
\* fails there in the same way and caches nothing.
StoreUnavailable(p) ==
  /\ req[p].pc \in StorePcs
  /\ req' = [req EXCEPT ![p] = Finish(@, "StoreUnavailable", [at |-> @.pc])]
  /\ redisIdeal' =
       IF req[p].idealPut
       THEN Del(redisIdeal, {IF req[p].op = "employees" THEN KeyOf(req[p])
                             ELSE RecKey(req[p].id)})
       ELSE redisIdeal
  /\ UNCHANGED <<employees, redis, isConnected, ver, committed>>
  /\ UNCHANGED served

\* ---------------------------------------------------- resolvers: the rest
\* Query.searchEmployees
Query_searchEmployees(p, cfg) ==
  /\ Admit(p, cfg)
  /\ served' = served + 1
  /\ \E user \in cfg.callers, term \in cfg.terms, pagination \in cfg.paginations :
       LET r == [NewReq("searchEmployees", user) EXCEPT
                   !.search = term, !.pagination = pagination]
       IN IF ~user.auth
          THEN req' = [req EXCEPT ![p] = Finish(r, "UNAUTHENTICATED", NoResult)]
          ELSE IF NotAdmin(user)
          THEN req' = [req EXCEPT ![p] = Finish(r, "FORBIDDEN", NoResult)]
          ELSE searchEmployees(p, r)
  /\ UNCHANGED <<employees, redis, isConnected, ver, committed, redisIdeal>>

\* Query.employeeStats
Query_employeeStats(p, cfg) ==
  /\ Admit(p, cfg)
  /\ served' = served + 1
  /\ \E user \in cfg.callers :
       LET r == NewReq("employeeStats", user)
       IN IF ~user.auth \/ NotAdmin(user)
          THEN req' = [req EXCEPT ![p] = Finish(r, "FORBIDDEN", NoResult)]
          ELSE getEmployeeStats(p, r)
  /\ UNCHANGED <<employees, redis, isConnected, ver, committed, redisIdeal>>

\* Mutation.createEmployee
Mutation_createEmployee(p, cfg) ==
  /\ Admit(p, cfg)
  /\ served' = served + 1
  /\ \E user \in cfg.callers, input \in cfg.createInputs :
       LET r == [NewReq("createEmployee", user) EXCEPT !.input = input]
       IN IF ~user.auth \/ NotAdmin(user)
          THEN req' = [req EXCEPT ![p] = Finish(r, "FORBIDDEN", NoResult)]
          ELSE WriteBudget /\ CreateBudget /\ createEmployee(p, r)
  /\ UNCHANGED <<employees, redis, isConnected, ver, committed, redisIdeal>>

\* Mutation.updateEmployee
Mutation_updateEmployee(p, cfg) ==
  /\ Admit(p, cfg)
  /\ served' = served + 1
  /\ \E user \in cfg.callers, id \in cfg.ids, input \in cfg.updateInputs :
       LET r == [NewReq("updateEmployee", user) EXCEPT
                   !.id = id, !.input = input]
           restrictedFields == (DOMAIN input) \ allowedFields
       IN IF ~user.auth
          THEN req' = [req EXCEPT ![p] = Finish(r, "UNAUTHENTICATED", NoResult)]
          ELSE IF \/ NotOwner(user, id)
                  \/ user.role = "employee" /\ restrictedFields # {}
          THEN req' = [req EXCEPT ![p] = Finish(r, "FORBIDDEN", NoResult)]
          ELSE WriteBudget /\ updateEmployee(p, r)
  /\ UNCHANGED <<employees, redis, isConnected, ver, committed, redisIdeal>>

\* Mutation.deleteEmployee
Mutation_deleteEmployee(p, cfg) ==
  /\ Admit(p, cfg)
  /\ served' = served + 1
  /\ \E user \in cfg.callers, id \in cfg.ids :
       LET r == [NewReq("deleteEmployee", user) EXCEPT !.id = id]
       IN IF ~user.auth \/ NotAdmin(user)
          THEN req' = [req EXCEPT ![p] = Finish(r, "FORBIDDEN", NoResult)]
          ELSE WriteBudget /\ deleteEmployee(p, r)
  /\ UNCHANGED <<employees, redis, isConnected, ver, committed, redisIdeal>>

\* Mutation.markAttendance
Mutation_markAttendance(p, cfg) ==
  /\ Admit(p, cfg)
  /\ served' = served + 1
  /\ \E user \in cfg.callers, id \in cfg.ids, attendance \in cfg.attendanceInputs :
       LET r == [NewReq("markAttendance", user) EXCEPT
                   !.id = id, !.attendance = attendance]
       IN IF ~user.auth
          THEN req' = [req EXCEPT ![p] = Finish(r, "UNAUTHENTICATED", NoResult)]
          ELSE IF NotOwner(user, id)
          THEN req' = [req EXCEPT ![p] = Finish(r, "FORBIDDEN", NoResult)]
          ELSE WriteBudget /\ markAttendance(p, r)
  /\ UNCHANGED <<employees, redis, isConnected, ver, committed, redisIdeal>>

\* Mutation.bulkUpdateEmployees
Mutation_bulkUpdateEmployees(p, cfg) ==
  /\ Admit(p, cfg)
  /\ served' = served + 1
  /\ \E user \in cfg.callers, ids \in cfg.bulkIdSets, input \in cfg.bulkInputs :
       LET r == [NewReq("bulkUpdateEmployees", user) EXCEPT
                   !.ids = ids, !.input = input]
       IN IF ~user.auth \/ NotAdmin(user)
          THEN req' = [req EXCEPT ![p] = Finish(r, "FORBIDDEN", NoResult)]
          ELSE WriteBudget /\ bulkUpdateEmployees(p, r)
  /\ UNCHANGED <<employees, redis, isConnected, ver, committed, redisIdeal>>

\* --------------------------------------------------------------- responses
\* The response has been sent; the process takes the next request.
Return(p) ==
  /\ req[p].pc = "done"
  /\ req' = [req EXCEPT ![p] = IdleReq]
  /\ UNCHANGED <<employees, redis, isConnected, ver, committed, redisIdeal,
                 served>>

\* ------------------------------------------------------- next-state relation
ReadSteps(p) ==
  \/ getEmployees_cacheGet(p)
  \/ getEmployees_find(p)
  \/ getEmployees_count(p)
  \/ getEmployees_cacheSet(p)
  \/ getEmployeeById_cacheGet(p)
  \/ getEmployeeById_findById(p)
  \/ getEmployeeById_cacheSet(p)

WriteSteps(p) ==
  \/ createEmployee_findOne(p)
  \/ updateEmployee_findOne(p)
  \/ updateEmployee_update(p)
  \/ deleteEmployee_update(p)
  \/ markAttendance_update(p)
  \/ bulkUpdateEmployees_updateMany(p)
  \/ bulkUpdateEmployees_refetch(p)
  \/ evict_keys(p)
  \/ deletePattern_del(p)

ReportSteps(p) ==
  \/ searchEmployees_find(p)
  \/ searchEmployees_count(p)
  \/ getEmployeeStats_answer(p)

ReadWriteResolvers(p, cfg) ==
  \/ Query_employees(p, cfg)
  \/ Query_employee(p, cfg)
  \/ Mutation_createEmployee(p, cfg)
  \/ Mutation_updateEmployee(p, cfg)
  \/ Mutation_deleteEmployee(p, cfg)
  \/ Mutation_markAttendance(p, cfg)
  \/ Mutation_bulkUpdateEmployees(p, cfg)

ReportResolvers(p, cfg) ==
  \/ Query_searchEmployees(p, cfg)
  \/ Query_employeeStats(p, cfg)

\* Every caller and every operation, one request at a time.
GuardCfg ==
  [callers |-> Callers, filters |-> Filters, paginations |-> Paginations,
   ids |-> Ids, terms |-> SearchQueries, createInputs |-> CreateInputs,
   updateInputs |-> UpdateInputs, attendanceInputs |-> AttendanceInputs,
   bulkIdSets |-> BulkIdSets, bulkInputs |-> BulkInputs,
   maxRequests |-> GuardRequests, cacheUp |-> FALSE]

Next ==
  \/ ReadWriteResolvers(1, GuardCfg)
  \/ ReportResolvers(1, GuardCfg)
  \/ ReadSteps(1)
  \/ WriteSteps(1)
  \/ ReportSteps(1)
  \/ StoreUnavailable(1)
  \/ Return(1)
  \/ OnConnect
  \/ OnError

Spec == Init /\ [][Next]_vars

\* An administrator's reads and writes, one request at a time, while the
\* cache connects and disconnects.
CacheCfg ==
  [callers |-> {AdminUser}, filters |-> {NoFilter},
   paginations |-> {[page |-> 1, limit |-> 10]},
   ids |-> Ids, terms |-> SearchQueries, createInputs |-> CreateInputs,
   updateInputs |-> UpdateInputs, attendanceInputs |-> AttendanceInputs,
   bulkIdSets |-> BulkIdSets, bulkInputs |-> BulkInputs,
   maxRequests |-> MaxRequests, cacheUp |-> FALSE]

NextCache ==
  \/ ReadWriteResolvers(1, CacheCfg)
  \/ ReadSteps(1)
  \/ WriteSteps(1)
  \/ StoreUnavailable(1)
  \/ Return(1)
  \/ OnConnect
  \/ OnError

SpecCache == Init /\ [][NextCache]_vars

\* Lists and writes of an administrator served concurrently, once the cache
\* has connected; it stays connected, and every write evicts the list keys.
ConcCfg ==
  [callers |-> {AdminUser}, filters |-> {NoFilter},
   paginations |-> {[page |-> 1, limit |-> 10]},
   ids |-> {1}, terms |-> SearchQueries, createInputs |-> CreateInputs,
   updateInputs |-> {[class |-> "c2"]}, attendanceInputs |-> AttendanceInputs,
   bulkIdSets |-> BulkIdSets, bulkInputs |-> BulkInputs,
   maxRequests |-> MaxRequests, cacheUp |-> TRUE]

NextConc ==
  \/ \E p \in Procs :
       \/ Query_employees(p, ConcCfg)
       \/ Mutation_updateEmployee(p, ConcCfg)
       \/ Mutation_deleteEmployee(p, ConcCfg)
       \/ getEmployees_cacheGet(p)
       \/ getEmployees_find(p)
       \/ getEmployees_count(p)
       \/ getEmployees_cacheSet(p)
       \/ updateEmployee_update(p)
       \/ deleteEmployee_update(p)
       \/ evict_keys(p)
       \/ deletePattern_del(p)
       \/ Return(p)
  \/ OnConnect

SpecConc == Init /\ [][NextConc]_vars

\* Writes of an administrator served concurrently on a connected cache.  A
\* list is served only while nothing else is in flight, so that the list
\* keys the writes find were all stored before the writes began.
WritesCfg ==
  [callers |-> {AdminUser}, filters |-> {NoFilter},
   paginations |-> {[page |-> 1, limit |-> 10]},
   ids |-> Ids, terms |-> SearchQueries, createInputs |-> CreateInputs,
   updateInputs |-> {[class |-> "c2"]},
   attendanceInputs |-> {[status |-> "present"]},
   bulkIdSets |-> BulkIdSets, bulkInputs |-> {[class |-> "c2"]},
   maxRequests |-> MaxRequests, cacheUp |-> TRUE]

NoReadInFlight == \A q \in Procs : req[q].op # "employees"

ListAlone(p) ==
  /\ \A q \in Procs : Free(q)
  /\ Query_employees(p, WritesCfg)
UpdateAmongWrites(p) ==
  /\ NoReadInFlight
  /\ Mutation_updateEmployee(p, WritesCfg)
DeleteAmongWrites(p) ==
  /\ NoReadInFlight
  /\ Mutation_deleteEmployee(p, WritesCfg)
AttendanceAmongWrites(p) ==
  /\ NoReadInFlight
  /\ Mutation_markAttendance(p, WritesCfg)
BulkAmongWrites(p) ==
  /\ NoReadInFlight
  /\ Mutation_bulkUpdateEmployees(p, WritesCfg)

NextWrites ==
  \/ \E p \in Procs :
       \/ ListAlone(p)
       \/ UpdateAmongWrites(p)
       \/ DeleteAmongWrites(p)
       \/ AttendanceAmongWrites(p)
       \/ BulkAmongWrites(p)
       \/ getEmployees_cacheGet(p)
       \/ getEmployees_find(p)
       \/ getEmployees_count(p)
       \/ getEmployees_cacheSet(p)
       \/ updateEmployee_update(p)
       \/ deleteEmployee_update(p)
       \/ markAttendance_update(p)
       \/ bulkUpdateEmployees_updateMany(p)
       \/ bulkUpdateEmployees_refetch(p)
       \/ evict_keys(p)
       \/ deletePattern_del(p)
       \/ Return(p)
  \/ OnConnect

SpecWrites == Init /\ [][NextWrites]_vars

\* An administrator's reads and writes on a connected cache while time
\* passes.
TtlCfg ==
  [callers |-> {AdminUser}, filters |-> {NoFilter},
   paginations |-> {[page |-> 1, limit |-> 10]},
   ids |-> Ids, terms |-> SearchQueries, createInputs |-> CreateInputs,
   updateInputs |-> {[class |-> "c2"]},
   attendanceInputs |-> {[status |-> "present"]},
   bulkIdSets |-> BulkIdSets, bulkInputs |-> {[class |-> "c2"]},
   maxRequests |-> MaxRequests, cacheUp |-> TRUE]

NextTtl ==
  \/ Query_employees(1, TtlCfg)
  \/ Query_employee(1, TtlCfg)
  \/ Mutation_updateEmployee(1, TtlCfg)
  \/ ReadSteps(1)
  \/ updateEmployee_update(1)
  \/ evict_keys(1)
  \/ deletePattern_del(1)
  \/ Return(1)
  \/ OnConnect
  \/ Tick

SpecTtl == Init /\ [][NextTtl]_vars

\* An administrator's reads and writes, one request at a time, on a cache
\* that connects, disconnects and rejects commands.
NextFault ==
  \/ ReadWriteResolvers(1, CacheCfg)
  \/ ReadSteps(1)
  \/ WriteSteps(1)
  \/ CacheCommandError(1)
  \/ StoreUnavailable(1)
  \/ Return(1)
  \/ OnConnect
  \/ OnError

SpecFault == Init /\ [][NextFault]_vars

\* The same list asked again and again on a connected cache while time
\* passes, with updates of record 1, which the store always accepts: as
\* long as ver is 0 every earlier request of the run was that list.
RepeatCfg == [TtlCfg EXCEPT !.ids = {1}]

NextRepeat ==
  \/ Query_employees(1, RepeatCfg)
  \/ Mutation_updateEmployee(1, RepeatCfg)
  \/ getEmployees_cacheGet(1)
  \/ getEmployees_find(1)
  \/ getEmployees_count(1)
  \/ getEmployees_cacheSet(1)
  \/ updateEmployee_update(1)
  \/ evict_keys(1)
  \/ deletePattern_del(1)
  \/ Return(1)
  \/ OnConnect
  \/ Tick

SpecRepeat == Init /\ [][NextRepeat]_vars

\* getRecord calls served concurrently on a connected cache, while the
\* second record may come to exist.
AbsentCfg == [TtlCfg EXCEPT !.maxRequests = GuardRequests]

NextAbsent ==
  \/ \E p \in Procs :
       \/ Query_employee(p, AbsentCfg)
       \/ getEmployeeById_cacheGet(p)
       \/ getEmployeeById_findById(p)
       \/ getEmployeeById_cacheSet(p)
       \/ Return(p)
  \/ RecordAppears
  \/ OnConnect

SpecAbsent == Init /\ [][NextAbsent]_vars

\* ------------------------------------------------------------- properties
Done(p) == req[p].pc = "done"

\* The request process p received in this step.
Received(p) == req[p].pc = "idle" /\ req'[p].pc # "idle"

\* The step leaves the store and the cache as they were.
Untouched == employees' = employees /\ redis' = redis

\* A request rejected by its resolver: it ends in the step that received it,
\* having called neither the store nor the cache.
Rejected(r, kind) == r.pc = "done" /\ r.outcome = kind /\ r.trace = <<>>

Evictions(r) ==
  {k \in 1..Len(r.trace) : r.trace[k] \in {"cache.delete", "cache.deletePattern"}}

MemberOps == {"employees", "employee", "updateEmployee", "markAttendance"}
AdminOps == {"createEmployee", "deleteEmployee", "bulkUpdateEmployees",
             "employeeStats", "searchEmployees"}

\* C1: a member whose identity references record r gets from every
\* completed listRecords call only items that are record r.
C1_MemberListsOnlyOwnRecord ==
  \A p \in Procs :
    LET r == req[p]
    IN (Done(p) /\ r.op = "employees" /\ r.outcome = "OK"
        /\ r.user.role = "employee" /\ r.user.employeeRef # 0)
       => \A k \in 1..Len(r.result.data) :
            r.result.data[k]._id = r.user.employeeRef

\* C2: a member naming a record id other than its own reference in
\* getRecord, updateRecord or markAttendance is rejected as Forbidden in the
\* step that receives the request, with no store or cache call made and the
\* store and the cache unchanged.
C2_ForeignIdForbiddenBeforeAccess ==
  [][\A p \in Procs :
       (/\ Received(p)
        /\ req'[p].op \in {"employee", "updateEmployee", "markAttendance"}
        /\ req'[p].user.role = "employee"
        /\ req'[p].id # req'[p].user.employeeRef)
       => Rejected(req'[p], "FORBIDDEN") /\ Untouched]_vars

\* Member 1 has asked to update record 2 and was refused.
C2_ForeignIdRejected ==
  \E p \in Procs :
    /\ Done(p) /\ req[p].op = "updateEmployee"
    /\ req[p].user = MemberUser(1) /\ req[p].id = 2
    /\ req[p].outcome = "FORBIDDEN"
    /\ Len(employees) = 2 /\ isConnected

\* The input names a field outside {subjects, class}.
RestrictedInput(r) == (DOMAIN r.input) \ {"subjects", "class"} # {}

\* The request ended well and the record holds every field of its input.
InputApplied(r) ==
  /\ r.outcome = "OK"
  /\ r.id \in 1..Len(employees)
  /\ \A f \in DOMAIN r.input : employees[r.id][f] = r.input[f]

UpdateAcceptable(r) ==
  /\ InputValid(r.input)
  /\ r.id \in 1..Len(employees)
  /\ ("email" \in DOMAIN r.input
        => ~EmailTaken(employees, r.input.email, r.id))

C4_WriteLeavesNoListKey ==
  \A p \in Procs :
    (/\ Done(p) /\ req[p].op \in WriteOps /\ req[p].outcome = "OK"
     /\ req[p].connOk
     /\ \A q \in Procs \ {p} : Free(q))
    => ListKeysOf(redis) = {}

\* C5: a listRecords call issued after a write has returned never returns
\* an envelope computed from the store as it was before that write.
C5_NoListFromBeforeReturnedWrite ==
  \A p \in Procs :
    (Done(p) /\ req[p].op = "employees" /\ req[p].outcome = "OK")
    => req[p].asOf >= req[p].seen

\* C6: in a sequential run with connect and error events, every completed
\* listRecords and getRecord call returns what the same run returns with the
\* cache connected throughout.
C6_SameResultAsConnectedCache ==
  \A p \in Procs :
    (/\ Done(p) /\ req[p].op \in {"employees", "employee"}
     /\ req[p].outcome \in {"OK", "NOT_FOUND"})
    => req[p].result = req[p].ideal

\* A getRecord call answered from a key that an update made while the cache
\* was disconnected did not evict.
C6_StaleRecordAfterReconnect ==
  \E p \in Procs :
    /\ Done(p) /\ req[p].op = "employee" /\ req[p].outcome = "OK"
    /\ req[p].connOk
    /\ req[p].ideal = employees[req[p].id]
    /\ req[p].result # employees[req[p].id]

\* C7: every operation invoked without a caller identity is rejected as
\* Unauthenticated before any store or cache call.
C7_AbsentCallerUnauthenticated ==
  \A p \in Procs :
    (req[p].pc # "idle" /\ ~req[p].user.auth)
    => Rejected(req[p], "UNAUTHENTICATED")

\* C8: a member invoking createRecord, deleteRecord, bulkUpdateRecords,
\* getStats or searchRecords is rejected as Forbidden in the step that
\* receives the request, with the store and the cache unchanged; an
\* administrator's request always passes the guard and reaches the service.
C8_AdminOnlyOperations ==
  [][\A p \in Procs :
       /\ (/\ Received(p)
           /\ req'[p].op \in AdminOps
           /\ req'[p].user.role = "employee")
          => Rejected(req'[p], "FORBIDDEN") /\ Untouched
       /\ (Received(p) /\ req'[p].user.role = "admin")
          => /\ req'[p].pc # "done"
             /\ req'[p].trace # <<>>
       /\ (req'[p].pc # "idle" /\ req'[p].user.role = "admin")
          => req'[p].outcome \notin {"FORBIDDEN", "UNAUTHENTICATED"}]_vars

\* Member 1 has asked for a search and was refused.
C8_MemberRejectedOnSearch ==
  \E p \in Procs :
    /\ Done(p) /\ req[p].op = "searchEmployees"
    /\ req[p].user = MemberUser(1)
    /\ req[p].outcome = "FORBIDDEN"
    /\ isConnected /\ served = GuardRequests

\* C9: a member whose identity has no record reference is rejected on
\* listRecords, getRecord, updateRecord and markAttendance and is returned
\* no record data.
C9_MemberWithoutRefDenied ==
  \A p \in Procs :
    (/\ Done(p) /\ req[p].op \in MemberOps
     /\ req[p].user.role = "employee" /\ req[p].user.employeeRef = 0)
    => req[p].outcome = "FORBIDDEN" /\ req[p].result = NoResult

\* The store calls that mutate, and the position of a request waiting for
\* the answer of one.
MutationPcs == {"insert", "update", "updateMany"}

\* A write that ended because its store mutation failed or matched no
\* record: store error before or at the mutation, validation error,
\* duplicate email, or an unknown id on update, delete and markAttendance.
MutationFailed(r) ==
  /\ r.pc = "done" /\ r.op \in WriteOps
  /\ \/ r.outcome \in {"ValidationError", "DUPLICATE_EMAIL", "E11000"}
     \/ r.outcome = "NOT_FOUND"
     \/ /\ r.outcome = "StoreUnavailable"
        /\ r.result.at \in MutationPcs \cup {"findOne", "preSave"}

\* C10: a write issues its eviction calls only in the step in which its
\* store mutation answers with success, never earlier and never twice, and
\* a write whose store mutation fails or matches no record issues none.
C10_EvictOnlyAfterMutation ==
  [][\A p \in Procs :
       /\ (Evictions(req'[p]) # {} /\ Evictions(req'[p]) # Evictions(req[p]))
          => /\ req[p].pc \in MutationPcs
             /\ Evictions(req[p]) = {}
             /\ req[p].op # "bulkUpdateEmployees"
                  => ver' = ver + 1 /\ req'[p].wver = ver'
             /\ \A k \in Evictions(req'[p]) : k > Len(req[p].trace)
       /\ MutationFailed(req'[p]) => Evictions(req'[p]) = {}]_vars

\* An update that called the store, then both evictions, and returned.
C10_EvictedAfterUpdate ==
  \E p \in Procs :
    /\ Done(p) /\ req[p].op = "updateEmployee" /\ req[p].outcome = "OK"
    /\ req[p].trace = <<"store.findByIdAndUpdate", "cache.delete",
                        "cache.deletePattern">>
    /\ req[p].connOk

\* The record ids a write names.
Affected(r) == IF r.op = "bulkUpdateEmployees" THEN r.ids ELSE {r.id}

RecordWrites ==
  {"updateEmployee", "deleteEmployee", "markAttendance", "bulkUpdateEmployees"}

\* C11: when a successful updateRecord, deleteRecord, markAttendance or
\* bulkUpdateRecords returns, having found the cache available at each of
\* its calls and with no other request in flight, the record key of every
\* id it names is absent; nothing but a request's own steps changes the
\* cache, and a getRecord issued while the key of its id is absent returns
\* the record as the store holds it.
C11_RecordKeyAbsentAfterWrite ==
  [][\A p \in Procs :
       /\ (/\ req'[p].pc = "done" /\ req'[p].op \in RecordWrites
           /\ req'[p].outcome = "OK" /\ req'[p].connOk
           /\ \A q \in Procs \ {p} : req'[q].pc = "idle")
          => \A id \in Affected(req'[p]) : RecKey(id) \notin DOMAIN redis'
       /\ (\A q \in Procs : req[q].pc \in {"idle", "done"}) => redis' = redis
       /\ (/\ req'[p].pc = "done" /\ req'[p].op = "employee"
           /\ req'[p].outcome = "OK" /\ ~req'[p].cachedAt
           /\ \A q \in Procs \ {p} : req'[q].pc = "idle")
          => req'[p].result = employees'[req'[p].id]]_vars

\* An update has removed the cached copy of its record and returned.
C11_UpdateEvictedRecordKey ==
  \E p \in Procs :
    /\ Done(p) /\ req[p].op = "updateEmployee" /\ req[p].outcome = "OK"
    /\ req[p].connOk
    /\ RecKey(req[p].id) \in req[p].evicted
    /\ req[p].result.class = "c2"

\* Requests p and q were in flight together: neither was received after the
\* other's write had returned.
Overlapped(p, q) ==
  req[p].seen < req[q].wver /\ req[q].seen < req[p].wver

\* C12: once every one of a set of concurrently executing successful writes
\* has completed on an available cache, no key of the list namespace is
\* left, whatever the interleaving.
C12_NoListKeyAfterConcurrentWrites ==
  (/\ \A p \in Procs :
        /\ Done(p) /\ req[p].op \in WriteOps /\ req[p].outcome = "OK"
        /\ req[p].connOk
   /\ \A p, q \in Procs : p # q => Overlapped(p, q))
  => ListKeysOf(redis) = {}

\* C13: every key listRecords and getRecord store has an expiry, of 300
\* seconds when stored, and no key is in the cache 300 seconds after it was
\* stored.
C13_CachedEntriesExpire ==
  \A k \in DOMAIN redis :
    /\ redis[k].ttl # NoExpiry
    /\ redis[k].ttl > 0
    /\ redis[k].ttl + redis[k].age = CACHE_TTL

\* A list key that has been in the cache for two steps of the clock, next
\* to a record key stored one step ago.
C13_EntriesAgeing ==
  \E k, j \in DOMAIN redis :
    /\ k.ns = "employees" /\ redis[k].age = 2 * TickSeconds
    /\ j.ns = "employee" /\ redis[j].age = TickSeconds
    /\ redis[j].ttl = CACHE_TTL - TickSeconds

\* What the store alone answers to a completed request, one request at a
\* time: the envelope or the record as the store holds it, NOT_FOUND for an
\* id without a record, and for a write the documents it has written.
StoreAlone(r) ==
  CASE r.op = "employees" -> r.outcome = "OK" /\ r.result = FreshList(r)
    [] r.op = "employee" ->
         IF FreshDoc(r.id) = NoResult THEN r.outcome = "NOT_FOUND"
         ELSE r.outcome = "OK" /\ r.result = FreshDoc(r.id)
    [] r.op = "bulkUpdateEmployees" ->
         r.outcome = "OK" =>
           \A k \in 1..Len(r.result.docs) :
             r.result.docs[k] = employees[r.result.docs[k]._id]
    [] OTHER -> r.outcome = "OK" => r.result = employees[r.id]

\* C14: a request none of whose cache calls was answered by Redis, each
\* having found the client disconnected or had its command rejected, never
\* ends with an error of the cache, and ends with the result or the error
\* the store alone gives.
C14_CacheFailureIsTransparent ==
  \A p \in Procs :
    /\ req[p].outcome # "CacheError"
    /\ (Done(p) /\ ~req[p].cacheUsed /\ req[p].outcome # "StoreUnavailable")
       => StoreAlone(req[p])

\* A getRecord whose GET was rejected while the cache held an outdated copy
\* of the record has returned the store's record.
C14_RejectedGetReadsStore ==
  \E p \in Procs :
    /\ Done(p) /\ req[p].op = "employee" /\ req[p].outcome = "OK"
    /\ ~req[p].cacheUsed /\ isConnected
    /\ req[p].trace = <<"cache.get", "store.findById", "cache.set">>
    /\ RecKey(req[p].id) \in DOMAIN redis
    /\ redis[RecKey(req[p].id)].val # employees[req[p].id]
    /\ req[p].result = employees[req[p].id]

\* The step completes a list call of process p with an envelope.
ListCompletes(p) ==
  /\ req[p].pc # "done" /\ req'[p].pc = "done"
  /\ req'[p].op = "employees" /\ req'[p].outcome = "OK"

GetCompletes(p) ==
  /\ req[p].pc # "done" /\ req'[p].pc = "done" /\ req'[p].op = "employee"

\* C16: a getRecord that completes while its id has no record reports
\* NOT_FOUND, has made no cache.set call and leaves the cache as it was, and
\* no key ever holds a null; a getRecord that completes once the record
\* exists returns the record.
C16_NotFoundIsNotCached ==
  [][/\ \A p \in Procs :
          GetCompletes(p) =>
            IF req[p].id \in 1..Len(employees)
            THEN /\ req'[p].outcome = "OK"
                 /\ req'[p].result = employees[req[p].id]
            ELSE /\ req'[p].outcome = "NOT_FOUND"
                 /\ redis' = redis
                 /\ \A k \in 1..Len(req'[p].trace) :
                      req'[p].trace[k] # "cache.set"
     /\ \A k \in DOMAIN redis' : redis'[k].val # NoResult]_vars

\* A getRecord for id 2 has reported NOT_FOUND; the record has come to
\* exist since, and a getRecord for id 2 issued after that has found nothing
\* cached and has returned the record.
C16_FoundAfterNotFound ==
  \E p, q \in Procs :
    /\ Done(p) /\ req[p].op = "employee" /\ req[p].id = MaxRecords
    /\ req[p].outcome = "NOT_FOUND" /\ req[p].seen = 0
    /\ Done(q) /\ req[q].op = "employee" /\ req[q].id = MaxRecords
    /\ req[q].seen = 1 /\ ~req[q].cachedAt
    /\ req[q].outcome = "OK" /\ req[q].result = SecondEmployee
    /\ req[q].trace = <<"cache.get", "store.findById", "cache.set">>

\* Some record of emps, active or not, has the address.
HeldBy(emps, email) == {i \in 1..Len(emps) : emps[i].email = email}

\* C17: a createRecord whose email a record holds, active or soft-deleted,
\* ends, unless the store fails, with DUPLICATE_EMAIL in the step in which
\* its lookup answers: it has made no store call but the lookup and no
\* eviction call, and the step leaves the store and the cache as they were.
C17_DuplicateEmailRejectedBeforeStore ==
  [][\A p \in Procs :
       (/\ req[p].op = "createEmployee" /\ req[p].pc = "findOne"
        /\ req'[p] # req[p]
        /\ HeldBy(employees, req[p].input.email) # {})
       => \/ req'[p].outcome = "StoreUnavailable" /\ Untouched
          \/ /\ req'[p].pc = "done"
             /\ req'[p].outcome = "DUPLICATE_EMAIL"
             /\ req'[p].trace = <<"store.findOne">>
             /\ Len(employees') = Len(employees)
             /\ Untouched]_vars

\* A create with the address of the soft-deleted record 1 has been refused
\* with the cache connected; the key cached before it is still there.
C17_SoftDeletedHolderRejects ==
  \E p \in Procs :
    /\ Done(p) /\ req[p].op = "createEmployee"
    /\ req[p].outcome = "DUPLICATE_EMAIL"
    /\ Len(employees) = 1 /\ ~employees[1].isActive
    /\ req[p].input.email = employees[1].email
    /\ isConnected /\ redis # EmptyCache

\* C18: no two records ever share an email, and no createRecord,
\* updateRecord or bulkUpdateRecords has its email collision found by the
\* store's unique index (E11000) instead of being refused as a duplicate
\* before the store is asked to write.
C18_EmailCollisionsRejectedBeforeStore ==
  /\ \A i, j \in 1..Len(employees) :
       i # j => employees[i].email # employees[j].email
  /\ \A p \in Procs :
       req[p].op \in {"createEmployee", "updateEmployee",
                      "bulkUpdateEmployees"}
       => req[p].outcome # "E11000"

C20_StoredRecordsValid ==
  /\ \A i \in 1..Len(employees) : ValidAge(employees[i].age)
  /\ \A p \in Procs :
       (/\ Done(p)
        /\ req[p].op \in {"createEmployee", "updateEmployee",
                          "bulkUpdateEmployees"}
        /\ ~InputValid(req[p].input)
        /\ req[p].outcome \notin {"DUPLICATE_EMAIL", "NOT_FOUND",
                                   "StoreUnavailable"})
       => req[p].outcome = "ValidationError"

\* The step completes a deleteRecord call of process p with success.
DeleteCompletes(p) ==
  /\ req[p].pc # "done" /\ req'[p].pc = "done"
  /\ req'[p].op = "deleteEmployee" /\ req'[p].outcome = "OK"

\* C21: no step lowers the number of stored records; a deleteRecord that
\* completes leaves its record stored with isActive false; and, one request
\* at a time, every envelope a listRecords call returns holds only records
\* whose active flag is the one the filter asks for (true by default), with
\* a total that counts exactly those.
C21_SoftDeleteHidesFromDefaultList ==
  [][/\ Len(employees') >= Len(employees)
     /\ \A p \in Procs :
          /\ DeleteCompletes(p)
             => /\ req[p].id \in 1..Len(employees')
                /\ ~employees'[req[p].id].isActive
          /\ ListCompletes(p)
             => LET r == req'[p]
                    q == BuildQuery(r.filter)
                IN /\ \A k \in 1..Len(r.result.data) :
                        employees'[r.result.data[k]._id].isActive = q.isActive
                   /\ r.result.pagination.total = CountDocuments(employees', q)]_vars

\* ------------------------------------------------- paging of list and search
\* config.maxPageSize
maxPageSize == 100

\* PaginationInput values a client may send: page and limit are any Int.
PagePaginations ==
  { [page |-> 1, limit |-> 10], [page |-> 1, limit |-> 1],
    [page |-> 2, limit |-> 1], [page |-> 1, limit |-> maxPageSize + 1] }

\* An administrator lists and searches, one request at a time, over a
\* collection no request writes, while the cache connects and disconnects.
PageCfg == [CacheCfg EXCEPT !.filters = Filters,
                            !.paginations = PagePaginations]

NextPage ==
  \/ Query_employees(1, PageCfg)
  \/ Query_searchEmployees(1, PageCfg)
  \/ getEmployees_cacheGet(1)
  \/ getEmployees_find(1)
  \/ getEmployees_count(1)
  \/ getEmployees_cacheSet(1)
  \/ searchEmployees_find(1)
  \/ searchEmployees_count(1)
  \/ Return(1)
  \/ OnConnect
  \/ OnError

SpecPage == Init /\ [][NextPage]_vars

\* C22: a listRecords call whose page is below 1, whose limit is below 1 or
\* whose limit exceeds the configured maximum page size ends with a
\* ValidationError, having sent nothing to the store, and leaves no cache
\* entry under its key.
C22_OutOfRangePageRejected ==
  \A p \in Procs :
    (/\ Done(p) /\ req[p].op = "employees" /\ req[p].user.auth
     /\ \/ req[p].pagination.page < 1
        \/ req[p].pagination.limit < 1
        \/ req[p].pagination.limit > maxPageSize)
    => /\ req[p].outcome = "ValidationError"
       /\ req[p].trace = <<>>
       /\ KeyOf(req[p]) \notin DOMAIN redis

\* The number of stored records a list or search request asks for.
Matching(r) ==
  IF r.op = "employees" THEN CountDocuments(employees, BuildQuery(r.filter))
  ELSE Cardinality(TextMatchIds(employees, r.search))

\* C23: over a collection that no request writes, every envelope a list or
\* search call with page >= 1 and limit >= 1 returns echoes that page and
\* limit, has total equal to the number of stored records matching the query
\* (whatever the page), pages the least integer with pages * limit >= total,
\* hasNextPage exactly when page < pages, hasPrevPage exactly when page > 1,
\* and at most limit items.
C23_EnvelopeArithmetic ==
  \A p \in Procs :
    (/\ Done(p) /\ req[p].op \in {"employees", "searchEmployees"}
     /\ req[p].outcome = "OK"
     /\ req[p].pagination.page >= 1 /\ req[p].pagination.limit >= 1)
    => LET g == req[p].result.pagination
       IN /\ g.page = req[p].pagination.page
          /\ g.limit = req[p].pagination.limit
          /\ g.total = Matching(req[p])
          /\ g.pages >= 0
          /\ g.pages * g.limit >= g.total
          /\ g.pages > 0 => (g.pages - 1) * g.limit < g.total
          /\ g.hasNextPage = (g.page < g.pages)
          /\ g.hasPrevPage = (g.page > 1)
          /\ Len(req[p].result.data) <= g.limit

\* The second page of a two-record list, one record a page, has been
\* returned.
C23_LastPageReturned ==
  /\ Done(1) /\ req[1].op = "employees" /\ req[1].outcome = "OK"
  /\ req[1].pagination = [page |-> 2, limit |-> 1]
  /\ req[1].result.pagination.total = 2
  /\ req[1].result.pagination.pages = 2
  /\ ~req[1].result.pagination.hasNextPage
  /\ req[1].result.pagination.hasPrevPage
  /\ Len(req[1].result.data) = 1

\* ------------------------------------------------------ the list cache key
\* An input object is the sequence of <<field, value>> pairs in the order
\* its fields were written; JSON.stringify writes the pairs in that order.
Has(obj, name) == \E i \in 1..Len(obj) : obj[i][1] = name
Get(obj, name, dflt) ==
  IF Has(obj, name) THEN obj[CHOOSE i \in 1..Len(obj) : obj[i][1] = name][2]
  ELSE dflt

\* Input objects of at most two fields, drawn from the given pairs.
InputObjects(pairs) ==
  {<<>>} \cup {<<a>> : a \in pairs}
         \cup {<<ab[1], ab[2]>> :
                 ab \in {x \in pairs \X pairs : x[1][1] # x[2][1]}}

\* What a client writes for the filter, sort and pagination arguments of
\* Query.employees; an argument may be left out altogether.
ClientFilters ==
  InputObjects({<<"class", "">>, <<"class", "c1">>, <<"isActive", "true">>})
ClientSorts ==
  InputObjects({<<"field", "createdAt">>, <<"order", "ASC">>})
ClientPaginations == InputObjects({<<"page", 2>>, <<"limit", 10>>})
ClientRequests ==
  { [filter |-> f, sortGiven |-> sg, sort |-> s, pagination |-> g] :
      f \in ClientFilters, sg \in BOOLEAN, s \in ClientSorts,
      g \in ClientPaginations } \
  { c \in [filter : ClientFilters, sortGiven : {FALSE}, sort : ClientSorts,
           pagination : ClientPaginations] : c.sort # <<>> }

\* The fields of the schema's input types, in the order the schema declares
\* them, with their default values.
EmployeeFilterInput ==
  << [name |-> "class", hasDefault |-> FALSE, dflt |-> ""],
     [name |-> "isActive", hasDefault |-> FALSE, dflt |-> ""] >>
PaginationInput ==
  << [name |-> "page", hasDefault |-> TRUE, dflt |-> 1],
     [name |-> "limit", hasDefault |-> TRUE, dflt |-> 10] >>
SortInput ==
  << [name |-> "field", hasDefault |-> TRUE, dflt |-> "createdAt"],
     [name |-> "order", hasDefault |-> TRUE, dflt |-> "DESC"] >>

\* An argument handed to the resolver as the client wrote it.
CoerceInput_asWritten(type, obj) == obj
\* The argument object the GraphQL executor hands to the resolver: the
\* fields of the input type in schema order, each with the client's value
\* or, left out by the client, with its default when it has one.
CoerceInput(type, obj) ==
  LET kept == SelectSeq(type, LAMBDA f : Has(obj, f.name) \/ f.hasDefault)
  IN [k \in 1..Len(kept) |->
        <<kept[k].name, Get(obj, kept[k].name, kept[k].dflt)>>]

\* const query = { isActive: true }; if (filter.class) ...;
\* if (typeof filter.isActive === 'boolean') ...
QueryObject(filter) ==
  << <<"isActive", Get(filter, "isActive", "true")>> >>
  \o (IF Get(filter, "class", "") # ""
      THEN << <<"class", Get(filter, "class", "")>> >> ELSE <<>>)

\* `employees:${JSON.stringify({ query, skip, limit, sort })}`
cacheKey(filter, pagination, sort) ==
  LET page == Get(pagination, "page", 1)
      limit == Get(pagination, "limit", 10)
  IN << "employees:", <<"query", QueryObject(filter)>>,
        <<"skip", (page - 1) * limit>>, <<"limit", limit>>, <<"sort", sort>> >>

\* Query.employees for an administrator, up to the key getEmployees
\* computes: the arguments are coerced, the filter is copied, a sort
\* argument left out takes the default parameter value.
employees_cacheKey(p) ==
  /\ req[p].pc = "start" /\ req[p].op = "employees"
  /\ LET c == req[p].input
         filter == CoerceInput(EmployeeFilterInput, c.filter)
         pagination == CoerceInput(PaginationInput, c.pagination)
         sort == IF c.sortGiven THEN CoerceInput(SortInput, c.sort)
                 ELSE << <<"field", "createdAt">>, <<"order", "DESC">> >>
     IN req' = [req EXCEPT ![p] =
                  [@ EXCEPT !.pc = "done",
                            !.result = cacheKey(filter, pagination, sort)]]
  /\ UNCHANGED <<employees, redis, isConnected, ver, committed, redisIdeal,
                 served>>

KeyedCall(c) ==
  [IdleReq EXCEPT !.pc = "start", !.op = "employees", !.user = AdminUser,
                  !.input = c]

\* Two list requests, each with arguments a client may write.
InitKey ==
  /\ employees = <<SeedEmployee>>
  /\ redis = EmptyCache
  /\ isConnected = FALSE
  /\ \E a \in ClientRequests, b \in ClientRequests :
       req = [p \in Procs |-> IF p = 1 THEN KeyedCall(a)
                              ELSE IF p = 2 THEN KeyedCall(b) ELSE IdleReq]
  /\ ver = 0
  /\ committed = 0
  /\ redisIdeal = EmptyCache
  /\ served = 0

NextKey == \E p \in {1, 2} : employees_cacheKey(p)

SpecKey == InitKey /\ [][NextKey]_vars

\* The filter, sort and page values a client's request stands for, whatever
\* the order of its fields: an empty class is no class, a missing isActive
\* is true, missing sort and page fields take the schema's defaults.
RequestValues(c) ==
  [class |-> Get(c.filter, "class", ""),
   isActive |-> Get(c.filter, "isActive", "true"),
   field |-> Get(c.sort, "field", "createdAt"),
   order |-> Get(c.sort, "order", "DESC"),
   page |-> Get(c.pagination, "page", 1),
   limit |-> Get(c.pagination, "limit", 10)]

KeyComputed(p) == req[p].pc = "done" /\ req[p].op = "employees"

\* C24: two list requests that stand for equal filter, sort and page values
\* get the identical cache key, whatever the order in which the client wrote
\* the fields of the three inputs and whether or not it wrote empty filter
\* fields or left fields out.
C24_EqualRequestsShareKey ==
  (KeyComputed(1) /\ KeyComputed(2)
   /\ RequestValues(req[1].input) = RequestValues(req[2].input))
  => req[1].result = req[2].result

\* Two requests with the same values, one with an empty class and its sort
\* and page fields in the opposite order, have got the same key.
C24_ReorderedRequestsKeyed ==
  /\ KeyComputed(1) /\ KeyComputed(2)
  /\ req[1].input.filter = << <<"class", "">> >>
  /\ req[2].input.filter = <<>>
  /\ req[1].input.sort = << <<"order", "ASC">>, <<"field", "createdAt">> >>
  /\ req[2].input.sort = << <<"field", "createdAt">>, <<"order", "ASC">> >>
  /\ req[1].input.pagination = << <<"limit", 10>>, <<"page", 2>> >>
  /\ req[2].input.pagination = << <<"page", 2>>, <<"limit", 10>> >>
  /\ req[1].result = req[2].result

\* The step is the store write of a markAttendance call of process p.
AttendancePushed(p) ==
  /\ req[p].op = "markAttendance" /\ req[p].pc = "update"
  /\ req'[p].wver # req[p].wver

\* C25: the store write of a markAttendance call appends the given entry to
\* the end of the target record's attendance list, stamps the record's
\* update time and leaves everything else in the store as it was; no other
\* step changes, removes or adds an attendance entry of a stored record.
C25_AttendanceAppendOnly ==
  [][/\ \A p \in Procs :
          AttendancePushed(p)
          => employees' =
               [employees EXCEPT
                  ![req[p].id] =
                     Touch([@ EXCEPT !.attendance = Append(@, req[p].attendance)],
                           Now)]
     /\ \A i \in 1..Len(employees) :
          \/ /\ i <= Len(employees')
             /\ employees'[i].attendance = employees[i].attendance
          \/ \E p \in Procs : AttendancePushed(p) /\ req[p].id = i]_vars

\* Record 1 holds two attendance entries, the second marked by the call
\* that has just succeeded.
C25_TwoEntriesMarked ==
  /\ Done(1) /\ req[1].op = "markAttendance" /\ req[1].outcome = "OK"
  /\ req[1].id = 1
  /\ Len(employees[1].attendance) = 2

\* ------------------------------------------- the attendanceRate virtual
\* A filter that takes late days for days present.
IsPresent_orLate(a) == a.status \in {"present", "late"}
\* a => a.status === 'present'
IsPresent(a) == a.status = "present"

\* The getter of the virtual; the quotient is kept as numerator and
\* denominator.
attendanceRate(doc) ==
  IF Len(doc.attendance) = 0 THEN [num |-> 0, den |-> 1]
  ELSE LET presentDays == Len(SelectSeq(doc.attendance, IsPresent))
       IN [num |-> presentDays * 100, den |-> Len(doc.attendance)]

AttendanceLists ==
  UNION { [1..n -> {[status |-> st] : st \in {"present", "absent", "late"}}] :
            n \in 0..MaxEntries }

\* One record with any attendance list, and a request that reads its rate.
InitRate ==
  /\ \E a \in AttendanceLists :
       employees = <<[SeedEmployee EXCEPT !.attendance = a]>>
  /\ redis = EmptyCache
  /\ isConnected = FALSE
  /\ req = [p \in Procs |->
              IF p = 1
              THEN [IdleReq EXCEPT !.pc = "start", !.op = "attendanceRate",
                                   !.user = AdminUser, !.id = 1]
              ELSE IdleReq]
  /\ ver = 0
  /\ committed = 0
  /\ redisIdeal = EmptyCache
  /\ served = 0

\* The attendanceRate field of the record is read.
Employee_attendanceRate(p) ==
  /\ req[p].pc = "start" /\ req[p].op = "attendanceRate"
  /\ req' = [req EXCEPT ![p] =
               Finish(@, "OK", attendanceRate(employees[@.id]))]
  /\ UNCHANGED <<employees, redis, isConnected, ver, committed, redisIdeal,
                 served>>

NextRate == Employee_attendanceRate(1)

SpecRate == InitRate /\ [][NextRate]_vars

\* The entries of a list with the given status.
EntriesWith(list, st) == {i \in 1..Len(list) : list[i].status = st}

\* C26: the attendance rate read from a record is 0 when the record has no
\* entries and otherwise equals 100 times the number of its entries with
\* status present divided by the number of all its entries, late and absent
\* entries counting as not present; three present entries and one absent
\* entry give 75.
C26_RateIsPresentShare ==
  (Done(1) /\ req[1].op = "attendanceRate")
  => LET list == employees[1].attendance
         rate == req[1].result
         present == Cardinality(EntriesWith(list, "present"))
     IN /\ rate.den > 0
        /\ Len(list) = 0 => rate.num = 0
        /\ Len(list) > 0 => rate.num * Len(list) = 100 * present * rate.den
        /\ (present = 3 /\ Cardinality(EntriesWith(list, "absent")) = 1
            /\ Len(list) = 4) => rate.num = 75 * rate.den

\* The rate of a record with three present entries and one absent entry
\* has been read.
C26_ThreeOfFourRead ==
  /\ Done(1) /\ req[1].op = "attendanceRate"
  /\ Len(employees[1].attendance) = 4
  /\ Cardinality(EntriesWith(employees[1].attendance, "present")) = 3
  /\ Cardinality(EntriesWith(employees[1].attendance, "absent")) = 1
  /\ req[1].result.num = 75 * req[1].result.den

\* ------------------------------------------------ statistics among writes
\* An administrator's statistics and deletes served concurrently on a
\* connected cache; no list is served, so the cache never holds a list key.
NextStatsConc ==
  \/ \E p \in Procs :
       \/ Query_employeeStats(p, ConcCfg)
       \/ Mutation_deleteEmployee(p, ConcCfg)
       \/ getEmployeeStats_answer(p)
       \/ deleteEmployee_update(p)
       \/ evict_keys(p)
       \/ Return(p)
  \/ OnConnect

SpecStatsConc == Init /\ [][NextStatsConc]_vars

\* C27: every statistics result has inactive = total - active, also when
\* writes are served while its store queries are answered.
C27_InactiveIsTotalMinusActive ==
  \A p \in Procs :
    (Done(p) /\ req[p].op = "employeeStats" /\ req[p].outcome = "OK")
    => req[p].result.inactiveEmployees =
         req[p].result.totalEmployees - req[p].result.activeEmployees

\* ----------------------------------------------- statistics of any roster
\* Attendance lists of at most one entry.
StatLists ==
  {<<>>} \cup {<<[status |-> st]>> : st \in {"present", "absent", "late"}}

\* Two records, each active or not, with or without a department, and with
\* any of the lists.
StatStores ==
  { << [SeedEmployee EXCEPT !.isActive = x[1], !.department = x[2],
                            !.attendance = x[3]],
       [SecondEmployee EXCEPT !.isActive = y[1], !.department = y[2],
                              !.attendance = y[3]] >> :
      x \in BOOLEAN \X {"", "Science"} \X StatLists,
      y \in BOOLEAN \X {"", "Science"} \X StatLists }

InitStats ==
  /\ employees \in StatStores
  /\ redis = EmptyCache
  /\ isConnected = FALSE
  /\ req = [p \in Procs |-> IdleReq]
  /\ ver = 0
  /\ committed = 0
  /\ redisIdeal = EmptyCache
  /\ served = 0

\* An administrator asks for the statistics, one request at a time.
NextStats ==
  \/ Query_employeeStats(1, CacheCfg)
  \/ getEmployeeStats_answer(1)
  \/ Return(1)

SpecStats == InitStats /\ [][NextStats]_vars

\* The attendance entries of the whole store, as <<record, position>>.
AllEntries ==
  {x \in (1..Len(employees)) \X (1..MaxEntries) :
     x[2] <= Len(employees[x[1]].attendance)}
PresentEntries ==
  {x \in AllEntries : employees[x[1]].attendance[x[2]].status = "present"}
ActiveIn(d) ==
  {i \in 1..Len(employees) :
     employees[i].isActive /\ employees[i].department = d}

\* The step completes a statistics call of process p.
StatsCompletes(p) ==
  /\ req[p].pc # "done" /\ req'[p].pc = "done"
  /\ req'[p].op = "employeeStats" /\ req'[p].outcome = "OK"

\* C28: no step of a statistics call changes the store or the cache; the
\* roster-wide attendance rate it returns is 0 when no record has an entry
\* and otherwise 100 times the present entries of all records divided by all
\* their entries; its department breakdown has one row for every department
\* some active record has, counting the active records of that department,
\* and no row for records without a department.
C28_StatsReadOnlyAndExact ==
  [][\A p \in Procs :
       /\ req'[p].op = "employeeStats" => Untouched
       /\ StatsCompletes(p)
          => LET res == req'[p].result
                 rate == res.averageAttendanceRate
                 n == Cardinality(AllEntries)
             IN /\ rate.den > 0
                /\ n = 0 => rate.num = 0
                /\ n > 0 => rate.num * n
                            = 100 * Cardinality(PresentEntries) * rate.den
                /\ \A row \in res.departmentCounts :
                     /\ row.department # ""
                     /\ row.count > 0
                     /\ row.count = Cardinality(ActiveIn(row.department))
                /\ \A i \in 1..Len(employees) :
                     (employees[i].isActive /\ employees[i].department # "")
                     => \E row \in res.departmentCounts :
                          row.department = employees[i].department]_vars

\* Statistics have been returned for a store whose active record has no
\* department, whose inactive record has one, and where one of two
\* attendance entries is present.
C28_MixedRosterReported ==
  /\ Done(1) /\ req[1].op = "employeeStats" /\ req[1].outcome = "OK"
  /\ employees[1].isActive /\ employees[1].department = ""
  /\ ~employees[2].isActive /\ employees[2].department = "Science"
  /\ Cardinality(AllEntries) = 2 /\ Cardinality(PresentEntries) = 1
  /\ req[1].result.departmentCounts = {}
  /\ req[1].result.averageAttendanceRate.num
       = 50 * req[1].result.averageAttendanceRate.den

\* ------------------------------------------- Employee.createdBy, userLoader
Null == [kind |-> "null"]
Pending == [kind |-> "pending"]
\* The ids the User collection holds.
Users == {1, 2, 3}
\* user.id, the string form of a user's _id.
IdString(u) == [kind |-> "string", _id |-> u]

\* The creators of the records a request returns, record by record.
CreatorLists == { <<1>>, <<1, 1>>, <<1, 2, 1, 3, 2>> }

\* The records request n returns.  createdBy is populated by the service:
\* an object, of which a store query hands out one per creator and a parsed
\* cache value one per record.
ParentsOf(n, creators, source) ==
  [k \in 1..Len(creators) |->
     [_id |-> k,
      createdBy |-> [kind |-> "object", _id |-> creators[k],
                     ref |-> <<n, IF source = "store" THEN 0 ELSE k>>]]]

\* One loader for the whole server.
createLoaders_once(p) == 1
\* context: createLoaders() is called for every request; the loaders of a
\* request are held by its own context.
createLoaders(p) == p

UserLoaderOf(p) == req[createLoaders(p)].context.loaders.userLoader

\* The context function runs for an inbound request that returns records.
createContext(p) ==
  /\ Free(p)
  /\ served < GuardRequests
  /\ served' = served + 1
  /\ \E creators \in CreatorLists, source \in {"store", "cache"} :
       req' = [req EXCEPT ![p] =
                 [NewReq("createdBy", AdminUser) EXCEPT
                    !.data = ParentsOf(served + 1, creators, source),
                    !.context = [request |-> served + 1,
                                 loaders |-> [userLoader |->
                                                NewLoader(served + 1)]]]]
  /\ UNCHANGED <<employees, redis, isConnected, ver, committed, redisIdeal>>

\* loader.load(key) for the keys of a sequence, one after the other: a key
\* the cache map holds (the same object, or the same string) is not added to
\* the batch.
RECURSIVE LoadAll(_, _)
LoadAll(loader, keys) ==
  IF keys = <<>> THEN loader
  ELSE LET key == Head(keys)
           known == \E m \in loader.memo : m.key = key
       IN LoadAll(IF known THEN loader
                  ELSE [loader EXCEPT
                          !.batch = Append(@, key),
                          !.memo = @ \cup {[key |-> key, value |-> Pending,
                                            by |-> 0]}],
                  Tail(keys))

\* Employee.createdBy runs for every record of the result in one scheduling
\* turn: userLoader.load(parent.createdBy).
Employee_createdBy(p) ==
  /\ req[p].pc = "start" /\ req[p].op = "createdBy"
  /\ LET keys == [k \in 1..Len(req[p].data) |-> req[p].data[k].createdBy]
     IN req' = [req EXCEPT
                  ![p].pc = "loaded",
                  ![createLoaders(p)].context.loaders.userLoader =
                     LoadAll(@, keys)]
  /\ UNCHANGED <<employees, redis, isConnected, ver, committed, redisIdeal,
                 served>>

Range(seq) == {seq[k] : k \in 1..Len(seq)}

\* The turn has ended: the batch function is called with the keys of the
\* batch and sends User.find({_id: {$in: ids}}), which casts every key to
\* an _id.
userLoader_batch(p) ==
  /\ req[p].pc = "loaded" /\ req[p].op = "createdBy"
  /\ LET ids == UserLoaderOf(p).batch
     IN req' = [req EXCEPT
                  ![p].pc = "find",
                  ![p].trace = Append(@, [call |-> "User.find", keys |-> ids,
                                          in |-> {ids[k]._id : k \in 1..Len(ids)}]),
                  ![createLoaders(p)].context.loaders.userLoader.batch = <<>>]
  /\ UNCHANGED <<employees, redis, isConnected, ver, committed, redisIdeal,
                 served>>

\* A document of the User collection, and what select('-password') keeps
\* of it.
UserDoc(u) == [kind |-> "user", _id |-> u, password |-> "hash"]
SelectNoPassword(doc) == [f \in DOMAIN doc \ {"password"} |-> doc[f]]

\* A lookup that hands on what Map.get answers for a missing key.
UserMapGet_undefined(users, key) ==
  IF key.kind = "string" /\ key._id \in users
  THEN SelectNoPassword(UserDoc(key._id))
  ELSE [kind |-> "undefined"]
\* userMap.get(id) || null: the map holds the documents find answered,
\* without their password, and is keyed by user.id, a string.
UserMapGet(users, key) ==
  IF key.kind = "string" /\ key._id \in users
  THEN SelectNoPassword(UserDoc(key._id))
  ELSE Null

\* The store answers; every key of the batch gets userMap.get(key) || null
\* and every load of the request its key's value.
userLoader_find(p) ==
  /\ req[p].pc = "find" /\ req[p].op = "createdBy"
  /\ LET query == req[p].trace[Len(req[p].trace)]
         users == query.in \cap Users
         sent == Range(query.keys)
         memo == {IF m.key \in sent
                  THEN [m EXCEPT !.value = UserMapGet(users, m.key),
                                 !.by = req[p].context.request]
                  ELSE m : m \in UserLoaderOf(p).memo}
         ValueOf(key) == LET m == CHOOSE m \in memo : m.key = key
                         IN [value |-> m.value, by |-> m.by]
     IN req' = [req EXCEPT
                  ![p] = Finish(@, "OK",
                                [k \in 1..Len(@.data) |->
                                   ValueOf(@.data[k].createdBy)]),
                  ![createLoaders(p)].context.loaders.userLoader.memo = memo]
  /\ UNCHANGED <<employees, redis, isConnected, ver, committed, redisIdeal,
                 served>>

\* Requests that resolve the creators of their records, served concurrently.
NextLoader ==
  \E p \in Procs :
    \/ createContext(p)
    \/ Employee_createdBy(p)
    \/ userLoader_batch(p)
    \/ userLoader_find(p)
    \/ Return(p)

SpecLoader == Init /\ [][NextLoader]_vars

\* The creators of the records a request returns.
CreatorsOf(r) == {r.data[k].createdBy._id : k \in 1..Len(r.data)}

CreatorsResolved(p) ==
  Done(p) /\ req[p].op = "createdBy" /\ req[p].outcome = "OK"

\* C29: the creator lookups of one request, issued in one scheduling turn,
\* are answered by exactly one store query, sent with one key for each
\* distinct creator, and every lookup resolves to the creator of its record.
C29_LookupsCoalescedAndResolved ==
  \A p \in Procs :
    CreatorsResolved(p)
    => /\ Len(req[p].trace) = 1
       /\ req[p].trace[1].in = CreatorsOf(req[p])
       /\ Len(req[p].trace[1].keys) = Cardinality(CreatorsOf(req[p]))
       /\ \A k \in 1..Len(req[p].data) :
            req[p].result[k].value =
              [kind |-> "user", _id |-> req[p].data[k].createdBy._id]

\* C30: the loader a request uses is the one created for that request, and
\* no two requests in flight use the same one; every batch a request's
\* loader sends holds keys of that request only; and every value a lookup
\* returns was resolved by a batch of the request's own loader.
C30_LoaderPerRequest ==
  \A p \in Procs :
    req[p].op = "createdBy"
    => LET n == req[p].context.request
       IN /\ UserLoaderOf(p).request = n
          /\ \A q \in Procs \ {p} :
               req[q].op = "createdBy" => req[q].context.request # n
          /\ \A k \in 1..Len(UserLoaderOf(p).batch) :
               UserLoaderOf(p).batch[k].ref[1] = n
          /\ \A m \in UserLoaderOf(p).memo : m.key.ref[1] = n
          /\ \A t \in 1..Len(req[p].trace) :
               \A k \in 1..Len(req[p].trace[t].keys) :
                 req[p].trace[t].keys[k].ref[1] = n
          /\ CreatorsResolved(p)
             => \A k \in 1..Len(req[p].data) : req[p].result[k].by = n

\* Two requests for records of the same creators have been in flight
\* together, and each has had its lookups answered by a batch of its own.
C30_TwoRequestsBatched ==
  /\ CreatorsResolved(1) /\ CreatorsResolved(2)
  /\ CreatorsOf(req[1]) = CreatorsOf(req[2])
  /\ Len(req[1].trace) = 1 /\ Len(req[2].trace) = 1
  /\ req[1].trace[1].keys # req[2].trace[1].keys

\* ------------------------------------------- the userLoader batch function
\* The id no document of the User collection has.
MissingUser == CHOOSE u \in 1..4 : u \notin Users

\* Keys a batch may hold: the id string of a user that exists or of one
\* that does not, and a populated user object.
BatchKeys ==
  { IdString(1), IdString(2), IdString(MissingUser),
    [kind |-> "object", _id |-> 1, ref |-> <<0, 0>>] }
Batches == UNION { [1..n -> BatchKeys] : n \in 1..3 }

\* A call of the batch function with any batch.
InitBatch ==
  /\ employees = <<SeedEmployee>>
  /\ redis = EmptyCache
  /\ isConnected = FALSE
  /\ \E ids \in Batches :
       req = [p \in Procs |->
                IF p = 1
                THEN [IdleReq EXCEPT !.pc = "start", !.op = "userLoader",
                                     !.data = ids]
                ELSE IdleReq]
  /\ ver = 0
  /\ committed = 0
  /\ redisIdeal = EmptyCache
  /\ served = 0

\* async (ids) => { users = await User.find({_id: {$in: ids}})
\*   .select('-password'); userMap = ...; return ids.map(...) }
userLoader_batchFn(p) ==
  /\ req[p].pc = "start" /\ req[p].op = "userLoader"
  /\ LET ids == req[p].data
         users == {ids[k]._id : k \in 1..Len(ids)} \cap Users
     IN req' = [req EXCEPT ![p] =
                  Finish(@, "OK",
                         [i \in 1..Len(ids) |-> UserMapGet(users, ids[i])])]
  /\ UNCHANGED <<employees, redis, isConnected, ver, committed, redisIdeal,
                 served>>

NextBatch == userLoader_batchFn(1)

SpecBatch == InitBatch /\ [][NextBatch]_vars

ThrownError(r) ==
  IF r.outcome \in {"UNAUTHENTICATED", "FORBIDDEN", "NOT_FOUND",
                    "DUPLICATE_EMAIL"}
  THEN [class |-> "GraphQLError", code |-> r.outcome,
        message |-> [by |-> "service", text |-> r.outcome]]
  ELSE [class |-> r.outcome, code |-> "none",
        message |-> [by |-> "driver", text |-> r.outcome]]

\* ApolloServer formatError: the message is handed on as it is, the code is
\* extensions.code or INTERNAL_SERVER_ERROR.
formatError(error) ==
  [message |-> error.message,
   extensions |-> [code |-> IF error.code # "none" THEN error.code
                            ELSE "INTERNAL_SERVER_ERROR"]]

ErrorKinds ==
  {"UNAUTHENTICATED", "FORBIDDEN", "NOT_FOUND", "DUPLICATE_EMAIL",
   "DUPLICATE_KEY", "VALIDATION_ERROR", "INTERNAL_SERVER_ERROR"}

\* C32: the error a failed request answers with carries a kind of the
\* taxonomy, and when the store or its driver raised the error the kind is
\* the duplicate-key, the validation or the internal-error kind and the
\* message is not the driver's.
C32_StoreErrorsMapped ==
  \A p \in Procs :
    (Done(p) /\ req[p].outcome # "OK")
    => LET thrown == ThrownError(req[p])
           response == formatError(thrown)
       IN /\ response.extensions.code \in ErrorKinds
          /\ thrown.message.by = "driver"
             => /\ response.extensions.code
                     \in {"DUPLICATE_KEY", "VALIDATION_ERROR",
                          "INTERNAL_SERVER_ERROR"}
                /\ response.message.by # "driver"

\* ------------------------------------------- authenticate (request context)
\* The payload a token was signed with.
TokenPayloads ==
  [id : {1, 2}, role : {"admin", "employee"}, employeeRef : {0, 1}]
\* The Authorization header: none, "Bearer" with nothing after it, or a
\* bearer token that jwt.verify accepts, finds expired, cannot parse or
\* finds signed with another secret.
AuthHeaders ==
  { [scheme |-> sc, token |-> "none", payload |-> [id |-> 0, role |-> "none",
                                                   employeeRef |-> 0]] :
      sc \in {"absent", "empty"} }
  \cup [scheme : {"Bearer"},
        token : {"valid", "expired", "malformed", "badSignature"},
        payload : TokenPayloads]

\* The document of user 1 as the User collection holds it when the request
\* arrives; no other user exists.
NoIdentity == [exists |-> FALSE, isActive |-> FALSE, role |-> "none",
               employeeRef |-> 0]
Identities ==
  {NoIdentity} \cup [exists : {TRUE}, isActive : BOOLEAN,
                     role : {"admin", "employee"}, employeeRef : {0, 1}]

\* jwt.verify inside verifyToken's try: the payload, or the error thrown.
JwtVerify(header) ==
  CASE header.token = "valid" -> [ok |-> TRUE, name |-> "none"]
    [] header.token = "expired" -> [ok |-> FALSE, name |-> "TokenExpiredError"]
    [] OTHER -> [ok |-> FALSE, name |-> "JsonWebTokenError"]

\* verifyToken: whatever jwt.verify throws is caught and replaced by
\* new Error('Invalid or expired token'), whose name is "Error".
verifyToken(header) ==
  IF JwtVerify(header).ok THEN [ok |-> TRUE, name |-> "none"]
  ELSE [ok |-> FALSE, name |-> "Error"]

\* User.findById(decoded.id)
FindUser(identity, id) == IF id = 1 THEN identity ELSE NoIdentity

\* A context that takes role and employeeRef from the token.
ContextUser_fromToken(decoded, user) ==
  [auth |-> TRUE, role |-> decoded.role, employeeRef |-> decoded.employeeRef]
\* return { id: user.id, email: user.email, role: user.role,
\*          employeeRef: user.employeeRef }
ContextUser(decoded, user) ==
  [auth |-> TRUE, role |-> user.role, employeeRef |-> user.employeeRef]

\* An error thrown while the context is built, as formatError reports it.
ContextError(code) ==
  formatError([class |-> "Error", code |-> code,
               message |-> [by |-> "service", text |-> code]]).extensions.code

\* authenticate(req), called by the context function: the request ends
\* here with an error code, or goes on with context.user.
authenticate(p) ==
  /\ req[p].pc = "start" /\ req[p].op = "authenticate"
  /\ LET header == req[p].input.authorization
         verified == verifyToken(header)
         user == FindUser(req[p].input.identity, header.payload.id)
         Reject(code) == Finish(req[p], ContextError(code), NoResult)
     IN req' = [req EXCEPT ![p] =
          IF header.scheme = "absent"
          THEN Finish([@ EXCEPT !.user = NoUser], "OK", NoResult)
          ELSE IF header.scheme = "empty" THEN Reject("INVALID_TOKEN")
          ELSE IF ~verified.ok
          THEN IF verified.name = "JsonWebTokenError"
               THEN Reject("INVALID_TOKEN")
               ELSE IF verified.name = "TokenExpiredError"
               THEN Reject("TOKEN_EXPIRED")
               ELSE Reject("none")
          ELSE IF ~user.exists \/ ~user.isActive THEN Reject("UNAUTHORIZED")
          ELSE Finish([@ EXCEPT !.user = ContextUser(header.payload, user)],
                      "OK", NoResult)]
  /\ UNCHANGED <<employees, redis, isConnected, ver, committed, redisIdeal,
                 served>>

\* A request with any Authorization header, and the identity record as the
\* store holds it when the request arrives.
InitAuth ==
  /\ employees = <<SeedEmployee>>
  /\ redis = EmptyCache
  /\ isConnected = FALSE
  /\ \E header \in AuthHeaders, identity \in Identities :
       req = [p \in Procs |->
                IF p = 1
                THEN [IdleReq EXCEPT
                        !.pc = "start", !.op = "authenticate",
                        !.input = [authorization |-> header,
                                   identity |-> identity]]
                ELSE IdleReq]
  /\ ver = 0
  /\ committed = 0
  /\ redisIdeal = EmptyCache
  /\ served = 0

NextAuth == authenticate(1)

SpecAuth == InitAuth /\ [][NextAuth]_vars

Authenticated(p) == Done(p) /\ req[p].op = "authenticate"

\* C33: a request whose bearer token fails verification ends while its
\* context is built, with code TOKEN_EXPIRED when the token has expired and
\* INVALID_TOKEN when it cannot be parsed or is wrongly signed, and gets no
\* context, neither an authenticated nor an anonymous one.
C33_FailedTokenRejectedWithCode ==
  (/\ Authenticated(1)
   /\ req[1].input.authorization.token
        \in {"expired", "malformed", "badSignature"})
  => /\ req[1].outcome # "OK"
     /\ req[1].outcome =
          IF req[1].input.authorization.token = "expired"
          THEN "TOKEN_EXPIRED" ELSE "INVALID_TOKEN"

\* C34: a request with a validly signed token is rejected when the identity
\* record the token names does not exist or is inactive, and otherwise goes
\* on with the role and employeeRef the identity record holds when the
\* request arrives, whatever the token carries.
C34_IdentityReadAtRequestTime ==
  (Authenticated(1) /\ req[1].input.authorization.token = "valid")
  => LET identity == FindUser(req[1].input.identity,
                              req[1].input.authorization.payload.id)
     IN IF ~identity.exists \/ ~identity.isActive
        THEN req[1].outcome = "UNAUTHORIZED" /\ req[1].user = NoUser
        ELSE /\ req[1].outcome = "OK"
             /\ req[1].user.auth
             /\ req[1].user.role = identity.role
             /\ req[1].user.employeeRef = identity.employeeRef

\* A token signed for an administrator without back-reference has been
\* presented after the identity record became an employee with one, and
\* the request goes on as that employee.
C34_DemotedCallerAdmitted ==
  /\ Authenticated(1) /\ req[1].outcome = "OK"
  /\ req[1].input.authorization.token = "valid"
  /\ req[1].input.authorization.payload
       = [id |-> 1, role |-> "admin", employeeRef |-> 0]
  /\ req[1].user = MemberUser(1)

\* ------------------------------------------------- getRecord among writes
\* getRecord calls and writes of an administrator on record 1, served
\* concurrently on a cache that has connected and stays connected.
NextGetConc ==
  \/ \E p \in Procs :
       \/ Query_employee(p, ConcCfg)
       \/ Mutation_updateEmployee(p, ConcCfg)
       \/ Mutation_markAttendance(p, TtlCfg)
       \/ getEmployeeById_cacheGet(p)
       \/ getEmployeeById_findById(p)
       \/ getEmployeeById_cacheSet(p)
       \/ updateEmployee_update(p)
       \/ markAttendance_update(p)
       \/ evict_keys(p)
       \/ Return(p)
  \/ OnConnect

SpecGetConc == Init /\ [][NextGetConc]_vars

\* C35: a getRecord call issued after a write to its record has returned
\* returns the record as the store held it at or after that write, or as
\* the store holds it now, never a version from before the write.
C35_NoRecordFromBeforeReturnedWrite ==
  \A p \in Procs :
    (Done(p) /\ req[p].op = "employee" /\ req[p].outcome = "OK")
    => \/ req[p].asOf >= req[p].seen
       \/ req[p].result = employees[req[p].id]


\* ------------------------------------------------- creates served together
\* Creates of every caller served concurrently on a connected cache; the
\* resolver turns away the callers who are not administrators.
\* save() ends at validation in every one of them, so the steps behind it
\* (the schema's pre-save hook, the insert, populate) are never taken and
\* are not listed.
CreateConcCfg == [ConcCfg EXCEPT !.callers = Callers]

NextCreateConc ==
  \/ \E p \in Procs :
       \/ Mutation_createEmployee(p, CreateConcCfg)
       \/ createEmployee_findOne(p)
       \/ Return(p)
  \/ OnConnect

SpecCreateConc == Init /\ [][NextCreateConc]_vars

\* C36: a createRecord of an administrator with valid fields and an email
\* that no record holds succeeds, whether it runs alone or among other
\* creates.
C36_ValidCreateSucceeds ==
  \A p \in Procs :
    (/\ Done(p) /\ req[p].op = "createEmployee"
     /\ ~NotAdmin(req[p].user)
     /\ InputValid(req[p].input)
     /\ ~EmailTaken(employees, req[p].input.email, 0))
    => req[p].outcome = "OK"


\* ------------------------------------------------------- a delete repeated
\* The store answers the findByIdAndUpdate of a deleteRecord call of process
\* p whose record is stored and already inactive.
DeleteReapplied(p) ==
  /\ req[p].pc = "update" /\ req[p].op = "deleteEmployee"
  /\ req'[p].pc # "update" /\ req'[p].outcome # "StoreUnavailable"
  /\ req[p].id \in 1..Len(employees)
  /\ ~employees[req[p].id].isActive

\* Records read and deleted by administrators, concurrently, on a connected
\* cache.  No list is cached, so deletePattern finds no key to delete.
DeleteCfg == [ConcCfg EXCEPT !.ids = Ids]

NextDelete ==
  \/ \E p \in Procs :
       \/ Query_employee(p, DeleteCfg)
       \/ Mutation_deleteEmployee(p, DeleteCfg)
       \/ getEmployeeById_cacheGet(p)
       \/ getEmployeeById_findById(p)
       \/ getEmployeeById_cacheSet(p)
       \/ deleteEmployee_update(p)
       \/ evict_keys(p)
       \/ Return(p)
  \/ OnConnect

SpecDelete == Init /\ [][NextDelete]_vars

\* C37 as stated: a deleteRecord applied to a record that is already
\* inactive is not answered with NOT_FOUND and leaves every field of every
\* stored record as it was.
C37_SecondDeleteChangesNothing ==
  [][\A p \in Procs :
       DeleteReapplied(p)
       => /\ req'[p].outcome # "NOT_FOUND"
          /\ employees' = employees]_vars

\* C37: a deleteRecord applied to a record that is already inactive is not
\* answered with NOT_FOUND, stamps the record's update time, and leaves every
\* other field of every stored record as it was; a deleteRecord that has
\* returned true was given a stored record, which is inactive from then on.
C37_SecondDeleteRestampsOnly ==
  [][\A p \in Procs :
       /\ DeleteReapplied(p)
          => /\ req'[p].outcome # "NOT_FOUND"
             /\ employees' = [employees EXCEPT ![req[p].id].updatedAt = Now]
       /\ DeleteCompletes(p)
          => /\ req[p].id \in 1..Len(employees')
             /\ ~employees'[req[p].id].isActive]_vars

\* Two deleteRecord calls on one record have been applied, and the second
\* has returned true.
C37_DeletedTwice ==
  \E p \in Procs :
    /\ Done(p) /\ req[p].op = "deleteEmployee" /\ req[p].outcome = "OK"
    /\ ver = 2
    /\ employees[req[p].id].updatedAt = 2
    /\ ~employees[req[p].id].isActive
    /\ \A i \in 1..Len(employees) : i # req[p].id => employees[i].isActive


\* ------------------------------------------- the fields of a returned record
\* A document as Mongoose hands it out, and as its toJSON (virtuals: true)
\* writes it: the stored fields, and the virtuals id and attendanceRate.
WithVirtuals(doc) ==
  [f \in (DOMAIN doc) \cup {"id", "attendanceRate"} |->
     IF f = "id" THEN IdString(doc._id)
     ELSE IF f = "attendanceRate" THEN attendanceRate(doc)
     ELSE doc[f]]

\* JSON.parse(JSON.stringify(object)): own fields only, the ObjectId as its
\* string.
ParseStringified(obj) ==
  [f \in DOMAIN obj |-> IF f = "_id" THEN IdString(obj._id) ELSE obj[f]]

\* The service answered without asking the store.
FromCache(r) ==
  \A i \in 1..Len(r.trace) :
    r.trace[i] \notin {"store.find", "store.countDocuments", "store.findById"}

\* The object getEmployees returns for a record: find().lean() gives the
\* stored fields as a plain object, and the cached envelope is the JSON of
\* such objects.
ListItem(r, doc) ==
  IF FromCache(r) THEN ParseStringified(doc) ELSE doc

\* The object getEmployeeById returns: the document findById gives, or the
\* parsed JSON of the document.
RecordValue(r, doc) ==
  IF FromCache(r) THEN ParseStringified(WithVirtuals(doc))
  ELSE WithVirtuals(doc)

\* The Employee type has a resolver for createdBy only: any other field is
\* read as the property of that name, undefined when the object has none.
FieldOf(source, name) ==
  IF name \in DOMAIN source THEN source[name] ELSE Null

Selected(source) ==
  [id |-> FieldOf(source, "id"),
   attendanceRate |-> FieldOf(source, "attendanceRate")]

\* id and attendanceRate are read from every record the operation returned.
Employee_fields(p) ==
  /\ Done(p) /\ req[p].outcome = "OK" /\ req[p].fields = <<>>
  /\ req[p].op \in {"employees", "employee"}
  /\ LET r == req[p]
     IN req' = [req EXCEPT ![p].fields =
                  IF r.op = "employees"
                  THEN [k \in 1..Len(r.result.data) |->
                          Selected(ListItem(r, r.result.data[k]))]
                  ELSE <<Selected(RecordValue(r, r.result))>>]
  /\ UNCHANGED <<employees, redis, isConnected, ver, committed, redisIdeal,
                 served>>

ViewLists ==
  { <<>>, <<[status |-> "present"]>>,
    <<[status |-> "present"], [status |-> "absent"]>> }

\* One active record with one of the lists; nothing is written.
InitView ==
  /\ \E a \in ViewLists :
       employees = <<[SeedEmployee EXCEPT !.attendance = a]>>
  /\ redis = EmptyCache
  /\ isConnected = FALSE
  /\ req = [p \in Procs |-> IdleReq]
  /\ ver = 0
  /\ committed = 0
  /\ redisIdeal = EmptyCache
  /\ served = 0

NextView ==
  \/ \E p \in Procs :
       \/ Query_employees(p, ConcCfg)
       \/ Query_employee(p, ConcCfg)
       \/ getEmployees_cacheGet(p)
       \/ getEmployees_find(p)
       \/ getEmployees_count(p)
       \/ getEmployees_cacheSet(p)
       \/ getEmployeeById_cacheGet(p)
       \/ getEmployeeById_findById(p)
       \/ getEmployeeById_cacheSet(p)
       \/ Employee_fields(p)
       \/ Return(p)
  \/ OnConnect

SpecView == InitView /\ [][NextView]_vars

\* C38: the item a listRecords call returns for a record, from the store or
\* from the cache, has the id and the attendanceRate that a getRecord call
\* returns for the record in the same store state.
C38_ListItemMatchesRecord ==
  \A p, q \in Procs :
    (/\ Done(p) /\ req[p].op = "employees" /\ req[p].fields # <<>>
     /\ Done(q) /\ req[q].op = "employee" /\ req[q].fields # <<>>)
    => \A k \in 1..Len(req[p].fields) :
         req[p].result.data[k]._id = req[q].id
         => /\ req[p].fields[k].id = req[q].fields[1].id
            /\ req[p].fields[k].attendanceRate
                 = req[q].fields[1].attendanceRate

====
